---- MODULE Spec2Model ----
(***************************************************************************)
(* Model of the Model Engine of dadi/lib/model/index.js: the create,       *)
(* update, delete and get operations of one collection, their hook chains  *)
(* (async.reduce), the history writes and the callbacks they invoke.       *)
(* Every asynchronous completion (a datastore promise, a hook promise, a   *)
(* composer callback) is one action, so operations interleave exactly at   *)
(* the points where the event loop can switch between them.                *)
(***************************************************************************)
EXTENDS Integers, Sequences, FiniteSets, TLC

\* ------------------------------------------------------------------ bounds
\* concurrent operation slots
NumOps == 2
\* documents the datastore ever holds (ids 1..MaxDocs)
MaxDocs == 3
\* documents in one create batch
MaxBatch == 2
\* handlers configured per hook chain when hooks are configured
NumHooks == 2
\* the documents of each collection that reference fields link
NumRef == 2
\* the documents a composed field can reference
NumStored == 3
\* the deepest configured composition depth
MaxDepth == 2
\* the longest result set converted
MaxResults == 2
\* the longest array of a reference field handed to beforeSave, and the
\* largest _id its values name
MaxValues == 2

Ops == 1..NumOps
Ids == 1..MaxDocs

\* ------------------------------------------------------------------ values
\* a field that is absent from a document (JavaScript undefined)
NoName == "undefined"
\* _history absent (revisioning disabled): revision ids are >= 1
NoHistory == <<0>>
Names == {"a", "b"}
\* the slot of the datastore for an id that holds no document
NoDoc == [_id |-> 0, name |-> NoName, _version |-> 0, _history |-> NoHistory]

\* the queries of the model: by _id, or by the value of the field name
Queries == {[k |-> "_id", id |-> 1, name |-> NoName, ids |-> {}],
            [k |-> "name", id |-> 0, name |-> "a", ids |-> {}]}
\* settings.compose of the collection, the initial value of this.compose
SettingsCompose == TRUE

\* a query the validator rejects (an unknown field or operator)
BadQuery == [k |-> "bad", id |-> 0, name |-> NoName, ids |-> {}]
\* an update payload value the validator rejects (wrong type for the field)
BadValue == "invalid"
\* the query {} of delete's unfiltered fetch
AllQuery == [k |-> "all", id |-> 0, name |-> NoName, ids |-> {}]
\* the query {_id: {$in: ids}} of update's re-fetch
IdsQuery(ids) == [k |-> "ids", id |-> 0, name |-> NoName, ids |-> ids]

\* the datastore's matching of a document against a query
Matches(doc, query) ==
    /\ doc # NoDoc
    /\ CASE query.k = "all" -> TRUE
         [] query.k = "_id" -> doc._id = query.id
         [] query.k = "ids" -> doc._id \in query.ids
         [] OTHER -> doc.name = query.name

\* error values handed to callbacks
NoErr == [type |-> "none", statusCode |-> 0, errors |-> <<>>]
createConnectionError == [type |-> "connection", statusCode |-> 503, errors |-> <<>>]
\* createValidationError('Validation Failed') with err.errors = validation.errors
createValidationError(validation) ==
    [type |-> "validation", statusCode |-> 400, errors |-> validation.errors]
NotFoundError == [type |-> "notfound", statusCode |-> 404, errors |-> <<>>]
\* hook.formatError(err): the handler's formatted error payload
HookError == [type |-> "hook", statusCode |-> 0, errors |-> <<>>]
\* the {} passed as error when a handler returns null
EmptyError == [type |-> "empty", statusCode |-> 0, errors |-> <<>>]
\* {success: false, errors: err} built by create
WrappedHookError(err) == [type |-> "wrapped-" \o err.type, statusCode |-> 0, errors |-> <<>>]
HistoryError == [type |-> "history", statusCode |-> 0, errors |-> <<>>]
\* err.json of a failed composer.createFromComposed
InlineError == [type |-> "inline", statusCode |-> 0, errors |-> <<>>]
\* TypeError thrown by the engine itself
TypeError == [type |-> "TypeError", statusCode |-> 0, errors |-> <<>>]
\* createValidationError('Bad Query'), and createValidationError() of update:
\* the validator's result goes to err.json, err.errors is not set
BadQueryError == [type |-> "validation", statusCode |-> 400, errors |-> <<>>]
\* an error a datastore promise rejected with, handed on as it is
RawError(message) == [type |-> message, statusCode |-> 0, errors |-> <<>>]
\* the messages a datastore promise rejects with
StorageFailures == {"DB_DISCONNECTED", "OTHER"}
\* search: new Error('Not Implemented') and new Error('Bad Request')
NotImplementedError == [type |-> "notimplemented", statusCode |-> 501, errors |-> <<>>]
BadRequestError == [type |-> "badrequest", statusCode |-> 400, errors |-> <<>>]

\* ------------------------------------------------------------------ state
VARIABLES
    \* the collection in the datastore: id -> document, NoDoc where none
    store,
    \* the next _id the datastore assigns
    nextId,
    \* the revision collection: revision id (position) -> revision record
    revisions,
    \* this.connection.db is set
    connected,
    \* this.compose, overwritten by every find that passes a compose option
    compose,
    \* settings.hooks configures the hook chains
    hooksOn,
    \* this.storeRevisions / this.history
    storeRevisions,
    \* the operations in flight, one record per slot
    ops,
    \* the call of a reference field hook or of a result set conversion under
    \* evaluation: its arguments and the collections it reads
    args,
    \* what that call has produced so far
    returned

\* the state of the model engine
engine == <<store, nextId, revisions, connected, compose, hooksOn, storeRevisions, ops>>

vars == <<store, nextId, revisions, connected, compose, hooksOn, storeRevisions, ops,
          args, returned>>

\* no hook or conversion is under evaluation
NoCall == [fn |-> "none"]
NoReturn == [status |-> "none"]

\* the state of one async.reduce over a hook array
NewChain == [started |-> <<>>, inflight |-> {}, finished |-> FALSE,
             err |-> NoErr, memo |-> "value"]

IdleOp == [kind |-> "none", pc |-> "idle", dbAtCall |-> FALSE,
           query |-> AllQuery, isRest |-> FALSE, payload |-> NoName,
           documents |-> <<>>, inline |-> <<>>, chains |-> <<>>,
           processedDocs |-> 0, updatedDocs |-> <<>>, deletedDocs |-> <<>>,
           allDocs |-> 0, matchedCount |-> 0, modified |-> <<>>,
           callbacks |-> <<>>, issued |-> <<>>, logged |-> 0,
           rejected |-> {}, nulled |-> {},
           \* the input passes validation; the rejection a datastore promise of the
           \* operation ended with; the compose option of a find and whether its
           \* results were composed; the query the storage delete was given; the
           \* effects that follow the storage delete
           valid |-> TRUE, failed |-> "none", composeOpt |-> "none",
           composed |-> "unset", usedQuery |-> AllQuery, after |-> <<>>,
           \* options.historyFilters of revisions, parsed ({} when absent)
           historyFilters |-> AllQuery,
           \* options.includeHistory of a find; for each document of its result
           \* set, where the revision lookup of injectHistory stands; the same
           \* at the moment the callback was invoked
           includeHistory |-> FALSE, histories |-> <<>>, delivered |-> <<>>]

\* the documents of the collection that match a query, in _id order
RECURSIVE FindFrom(_, _, _)
FindFrom(st, query, i) ==
    IF i > MaxDocs THEN <<>>
    ELSE (IF Matches(st[i], query) THEN <<st[i]>> ELSE <<>>) \o FindFrom(st, query, i + 1)
Find(st, query) == FindFrom(st, query, 1)

IdsOf(docs) == {docs[i]._id : i \in DOMAIN docs}

Range(seq) == {seq[i] : i \in DOMAIN seq}

\* one invocation of an operation's callback
Cb(err, hasResult, results, deletedCount, totalCount) ==
    [err |-> err, hasResult |-> hasResult, results |-> results,
     deletedCount |-> deletedCount, totalCount |-> totalCount]
CbError(err) == Cb(err, FALSE, <<>>, 0, 0)
CbResults(results) == Cb(NoErr, TRUE, results, 0, 0)

\* done(...) of operation record op
Done(op, cb) == [op EXCEPT !.callbacks = Append(@, cb)]
\* a datastore call issued by the operation (in issue order)
Issue(op, call) == [op EXCEPT !.issued = Append(@, call)]

Init ==
    /\ connected \in BOOLEAN
    /\ compose = SettingsCompose
    /\ hooksOn \in BOOLEAN
    /\ storeRevisions \in BOOLEAN
    /\ \E n \in 0..(MaxDocs - 1) :
         /\ store = [i \in Ids |-> IF i <= n
                                   THEN [_id |-> i, name |-> "a", _version |-> 1,
                                         _history |-> IF storeRevisions THEN <<>> ELSE NoHistory]
                                   ELSE NoDoc]
         /\ nextId = n + 1
    /\ revisions = <<>>
    /\ ops = [o \in Ops |-> IdleOp]
    /\ args = NoCall
    /\ returned = NoReturn

\* ------------------------------------------------------------------ hooks
\* the results a handler can produce: the value it was given, an explicit null,
\* a rejection
HookOutcomes == {"ok", "null", "reject"}
\* a beforeCreate, beforeUpdate or beforeDelete handler can also return a
\* document, payload or query of its own
QueryHookOutcomes == HookOutcomes \cup {"rewrite"}
\* the query a rewriting beforeDelete handler returns
RewrittenQuery == [k |-> "name", id |-> 0, name |-> "b", ids |-> {}]
\* the name a rewriting beforeCreate or beforeUpdate handler gives its
\* document or payload
RewrittenName == "c"

\* the sequence of the elements of a set of numbers, ascending
Ascending(S) ==
    [i \in 1..Cardinality(S) |-> CHOOSE x \in S : Cardinality({y \in S : y < x}) = i - 1]

\* async.each in place of async.reduce: every handler is invoked at the start
EachInvoke(n, completed) == IF completed = 0 THEN 1..n ELSE {}

\* async.reduce: the handlers invoked once `completed` handlers of an array of
\* n have called back without error (0: at the start of the chain)
ReduceInvoke(n, completed) == IF completed < n THEN {completed + 1} ELSE {}

\* a chain as async.reduce(hooks, value, ...) leaves it before any handler returns
StartChain(n) ==
    [NewChain EXCEPT !.started = Ascending(ReduceInvoke(n, 0)),
                     !.inflight = ReduceInvoke(n, 0),
                     !.finished = (n = 0)]

\* the error argument a chain's handler wrapper passes to async's callback
HookCallbackErr(chainName, outcome) ==
    CASE outcome = "reject" -> HookError
      [] outcome = "null" -> IF chainName = "beforeGet" THEN NoErr ELSE EmptyError
      [] OTHER -> NoErr

\* the value argument of the same call
HookCallbackValue(outcome) ==
    CASE outcome = "reject" -> "undefined"
      [] outcome = "null" -> "null"
      [] outcome = "rewrite" -> "rewritten"
      [] OTHER -> "value"

\* async.reduce when handler h of n calls back: memo = v, then the next handler
\* or, on an error or after the last handler, the final callback
ReduceStep(chain, h, n, chainName, outcome) ==
    LET err == HookCallbackErr(chainName, outcome)
        inv == IF err = NoErr THEN ReduceInvoke(n, h) ELSE {}
    IN  [chain EXCEPT !.memo = IF outcome = "ok" THEN @ ELSE HookCallbackValue(outcome),
                      !.err = err,
                      !.started = @ \o Ascending(inv),
                      !.inflight = (@ \ {h}) \cup inv,
                      !.finished = (err # NoErr \/ h = n)]

\* the chains in which a handler of the operation has rejected / returned null
Noted(op, chainName, outcome) ==
    [op EXCEPT !.rejected = IF outcome = "reject" THEN @ \cup {chainName} ELSE @,
               !.nulled = IF outcome = "null" THEN @ \cup {chainName} ELSE @]

\* ------------------------------------------------------------------ create
\* a document as the caller passes it: user fields only
InputDoc(name) == [_id |-> 0, name |-> name, _version |-> 0, _history |-> NoHistory]
DocInputs == {InputDoc("a"), InputDoc(NoName)}
Batches == UNION {[1..n -> DocInputs] : n \in 1..MaxBatch}

\* this.validate.schema(doc): the schema requires the field name
ValidateSchema(doc) ==
    [success |-> doc.name # NoName,
     errors |-> IF doc.name = NoName THEN <<"name">> ELSE <<>>]

\* this.validate.query(query)
ValidateQuery(query) ==
    [success |-> query.k # "bad",
     errors |-> IF query.k = "bad" THEN <<"query">> ELSE <<>>]

\* this.validate.schema(update, true): partial validation of an update payload
ValidateSchemaUpdate(payload) ==
    [success |-> payload # BadValue,
     errors |-> IF payload = BadValue THEN <<"name">> ELSE <<>>]

\* the forEach over the batch: a document is validated only while no earlier
\* one has failed, so the first failing validation is the one kept
RECURSIVE ValidateFrom(_, _, _)
ValidateFrom(documents, i, validation) ==
    IF i > Len(documents) THEN validation
    ELSE ValidateFrom(documents, i + 1,
                      IF validation.success THEN ValidateSchema(documents[i])
                      ELSE validation)

\* the same loop without its guard: the last document's validation is kept
ValidateBatchLastWins(documents) == ValidateSchema(documents[Len(documents)])

ValidateBatch(documents) ==
    ValidateFrom(documents, 1, [success |-> TRUE, errors |-> <<>>])

\* the initialisation without the initial revision number
InitInternalsNoVersion(doc, history) ==
    [doc EXCEPT !._history = IF history THEN <<>> ELSE @]

\* _history = [] when revisioning is enabled, then _version = 1
InitInternals(doc, history) ==
    [doc EXCEPT !._history = IF history THEN <<>> ELSE @, !._version = 1]

\* documents the datastore may still have to hold for creates in flight
RECURSIVE Reserved(_, _)
Reserved(os, o) ==
    IF o > NumOps THEN 0
    ELSE (IF os[o].kind = "create" /\ os[o].pc \in {"c_inline", "c_hooks", "c_insert"}
          THEN Len(os[o].documents) ELSE 0) + Reserved(os, o + 1)

\* an idle slot; slots are taken in order
Free(o) == ops[o].pc = "idle" /\ \A p \in 1..(o - 1) : ops[p].pc # "idle"

\* saveDocuments: database.insert is issued
CreateSaveDocuments(op) == [Issue(op, "insert") EXCEPT !.pc = "c_insert"]

\* startInsert: the beforeCreate chains of all documents start, or the insert
StartInsert(op) ==
    IF hooksOn
    THEN IF Len(op.documents) = 0 THEN op
         ELSE [op EXCEPT !.pc = "c_hooks", !.processedDocs = 0,
                         !.chains = [i \in DOMAIN op.documents |-> StartChain(NumHooks)]]
    ELSE CreateSaveDocuments(op)

\* Model.prototype.create up to the createFromComposed calls
CreateCall(o, documents) ==
    /\ Free(o)
    /\ nextId + Reserved(ops, 1) + Len(documents) - 1 <= MaxDocs
    /\ LET op == [IdleOp EXCEPT !.kind = "create", !.dbAtCall = connected,
                                !.documents = documents,
                                !.valid = ValidateBatch(documents).success]
       IN  ops' = [ops EXCEPT ![o] =
             IF ~connected
             THEN [Done(op, CbError(createConnectionError)) EXCEPT !.pc = "done"]
             ELSE IF ~ValidateBatch(documents).success
             THEN [Done(op, CbError(createValidationError(ValidateBatch(documents))))
                     EXCEPT !.pc = "done"]
             ELSE [op EXCEPT !.pc = "c_inline",
                     !.documents = [i \in DOMAIN documents |->
                                      InitInternals(documents[i], storeRevisions)],
                     !.inline = [i \in DOMAIN documents |-> "pending"]]]
    /\ UNCHANGED <<store, nextId, revisions, connected, compose, hooksOn, storeRevisions, args, returned>>

\* the callback of composer.createFromComposed for document idx
CreateInline(o, idx, ok) ==
    /\ ops[o].kind = "create"
    /\ idx \in DOMAIN ops[o].inline
    /\ ops[o].inline[idx] = "pending"
    /\ LET op == [ops[o] EXCEPT !.inline[idx] = IF ok THEN "ok" ELSE "err"]
           last == idx = Len(op.documents)
       IN  ops' = [ops EXCEPT ![o] =
             IF ~ok
             THEN [Done(op, CbError(InlineError)) EXCEPT
                     !.pc = IF last /\ op.pc = "c_inline" THEN "done" ELSE @]
             ELSE IF last THEN StartInsert(op)
             ELSE op]
    /\ UNCHANGED <<store, nextId, revisions, connected, compose, hooksOn, storeRevisions, args, returned>>

\* a beforeCreate handler of document idx's chain calls back
CreateHook(o, idx, outcome) ==
    /\ ops[o].kind = "create" /\ ops[o].pc = "c_hooks"
    /\ idx \in DOMAIN ops[o].chains
    /\ \E h \in ops[o].chains[idx].inflight :
         LET chain == ReduceStep(ops[o].chains[idx], h, NumHooks, "beforeCreate", outcome)
             op == Noted([ops[o] EXCEPT !.chains[idx] = chain], "beforeCreate", outcome)
             fin == chain.finished /\ ~ops[o].chains[idx].finished
             counted == [op EXCEPT !.processedDocs = @ + 1]
         IN  ops' = [ops EXCEPT ![o] =
               IF ~fin THEN op
               ELSE IF counted.processedDocs # Len(op.documents) THEN counted
               ELSE IF chain.err # NoErr
               THEN [Done(counted, CbError(WrappedHookError(chain.err))) EXCEPT !.pc = "done"]
               ELSE CreateSaveDocuments(counted)]
    /\ UNCHANGED <<store, nextId, revisions, connected, compose, hooksOn, storeRevisions, args, returned>>

\* the documents as the datastore stores them: _ids assigned in batch order
Inserted(documents, first) ==
    [i \in DOMAIN documents |-> [documents[i] EXCEPT !._id = first + i - 1]]

\* the catch of database.insert and of database.find: the disconnected
\* condition becomes the connection error, any other error is handed on
TranslateFailure(message) ==
    IF message = "DB_DISCONNECTED" THEN createConnectionError ELSE RawError(message)

\* database.insert resolves or rejects; compose, afterCreate and done follow
CreateInsert(o, outcome) ==
    /\ ops[o].kind = "create" /\ ops[o].pc = "c_insert"
    /\ IF outcome = "ok"
       THEN LET results == Inserted(ops[o].documents, nextId)
            IN  /\ store' = [i \in Ids |->
                               IF i \in IdsOf(results) THEN results[i - nextId + 1]
                               ELSE store[i]]
                /\ nextId' = nextId + Len(results)
                /\ ops' = [ops EXCEPT ![o] =
                             [Done(@, CbResults(results)) EXCEPT !.pc = "done"]]
       ELSE /\ ops' = [ops EXCEPT ![o] =
                         [Done(@, CbError(TranslateFailure(outcome)))
                            EXCEPT !.pc = "done", !.failed = outcome]]
            /\ UNCHANGED <<store, nextId>>
    /\ UNCHANGED <<revisions, connected, compose, hooksOn, storeRevisions, args, returned>>

\* ------------------------------------------------------------------ history
\* History.createEach(docs, action, model): one revision per snapshot, inserted
\* into the revision collection ...
RevisionsAfter(revs, docs, action, o) ==
    revs \o [i \in DOMAIN docs |-> [doc |-> docs[i], action |-> action, by |-> o]]

\* ... and its id appended to the live document's _history
RECURSIVE LinkedFrom(_, _, _, _)
LinkedFrom(st, docs, first, i) ==
    IF i > Len(docs) THEN st
    ELSE LET id == docs[i]._id
             linked == IF st[id] # NoDoc
                       THEN [st EXCEPT ![id]._history = Append(@, first + i - 1)]
                       ELSE st
         IN  LinkedFrom(linked, docs, first, i + 1)
StoreAfterHistory(st, revs, docs) == LinkedFrom(st, docs, Len(revs) + 1, 1)

\* ------------------------------------------------------------------ update
\* the datastore's update with {$set: update, $inc: {_version: 1}}, multi: true
SetUpdate(doc, payload) == [doc EXCEPT !.name = payload, !._version = @ + 1]

StoreAfterUpdate(st, query, payload) ==
    [i \in Ids |-> IF Matches(st[i], query) THEN SetUpdate(st[i], payload) ELSE st[i]]

\* Model.prototype.update up to its first find
UpdateCall(o, query, payload, isRest) ==
    /\ Free(o)
    /\ LET op == [IdleOp EXCEPT !.kind = "update", !.dbAtCall = connected,
                                !.query = query, !.payload = payload, !.isRest = isRest,
                                !.valid = /\ ValidateQuery(query).success
                                          /\ ValidateSchemaUpdate(payload).success]
       IN  ops' = [ops EXCEPT ![o] =
             IF ~connected
             THEN [Done(op, CbError(createConnectionError)) EXCEPT !.pc = "done"]
             ELSE IF ~ValidateQuery(query).success
             THEN [Done(op, CbError(BadQueryError)) EXCEPT !.pc = "done"]
             ELSE IF ~ValidateSchemaUpdate(payload).success
             THEN [Done(op, CbError(BadQueryError)) EXCEPT !.pc = "done"]
             ELSE [Issue(op, "find") EXCEPT !.pc = "u_find1"]]
    /\ UNCHANGED <<store, nextId, revisions, connected, compose, hooksOn, storeRevisions, args, returned>>

\* the first find returns: updatedDocs is the snapshot of its results
UpdateFind1(o) ==
    /\ ops[o].kind = "update" /\ ops[o].pc = "u_find1"
    /\ ops' = [ops EXCEPT ![o] = [@ EXCEPT !.updatedDocs = Find(store, ops[o].query),
                                           !.pc = "u_inline"]]
    /\ UNCHANGED <<store, nextId, revisions, connected, compose, hooksOn, storeRevisions, args, returned>>

\* the callback of composer.createFromComposed(update); startUpdate's find
UpdateInline(o, ok) ==
    /\ ops[o].kind = "update" /\ ops[o].pc = "u_inline"
    /\ IF ok
       THEN /\ ops' = [ops EXCEPT ![o] = [Issue(@, "find") EXCEPT !.pc = "u_find2"]]
            /\ compose' = FALSE
       ELSE /\ ops' = [ops EXCEPT ![o] = [Done(@, CbError(InlineError)) EXCEPT !.pc = "done"]]
            /\ UNCHANGED compose
    /\ UNCHANGED <<store, nextId, revisions, connected, hooksOn, storeRevisions, args, returned>>

\* saveDocuments of update: database.update is issued
UpdateSaveDocuments(op) == [Issue(op, "update") EXCEPT !.pc = "u_store"]

\* startUpdate's find returns: the beforeUpdate chain starts, or the update
UpdateFind2(o) ==
    /\ ops[o].kind = "update" /\ ops[o].pc = "u_find2"
    /\ ops' = [ops EXCEPT ![o] =
         IF hooksOn
         THEN [@ EXCEPT !.pc = "u_hooks", !.chains = <<StartChain(NumHooks)>>]
         ELSE UpdateSaveDocuments(@)]
    /\ UNCHANGED <<store, nextId, revisions, connected, compose, hooksOn, storeRevisions, args, returned>>

\* a beforeUpdate handler calls back
UpdateHook(o, outcome) ==
    /\ ops[o].kind = "update" /\ ops[o].pc = "u_hooks"
    /\ \E h \in ops[o].chains[1].inflight :
         LET chain == ReduceStep(ops[o].chains[1], h, NumHooks, "beforeUpdate", outcome)
             op == Noted([ops[o] EXCEPT !.chains[1] = chain], "beforeUpdate", outcome)
         IN  ops' = [ops EXCEPT ![o] =
               IF ~chain.finished THEN op
               ELSE IF chain.err # NoErr
               THEN [Done(op, CbError(chain.err)) EXCEPT !.pc = "done"]
               ELSE UpdateSaveDocuments(op)]
    /\ UNCHANGED <<store, nextId, revisions, connected, compose, hooksOn, storeRevisions, args, returned>>

\* the re-fetch find({_id: {$in: ...}}, {compose: true}) is called
UpdateRefetch(op) == [Issue(op, "find") EXCEPT !.pc = "u_find3"]

\* database.update resolves: not-found, or the history write, or the re-fetch
UpdateStore(o) ==
    /\ ops[o].kind = "update" /\ ops[o].pc = "u_store"
    /\ LET matched == Find(store, ops[o].query)
           op == [ops[o] EXCEPT !.matchedCount = Len(matched), !.modified = matched]
       IN  /\ store' = StoreAfterUpdate(store, ops[o].query, ops[o].payload)
           /\ IF op.isRest /\ op.matchedCount = 0
              THEN /\ ops' = [ops EXCEPT ![o] =
                                [Done(op, CbError(NotFoundError)) EXCEPT !.pc = "done"]]
                   /\ UNCHANGED compose
              ELSE IF storeRevisions
              THEN /\ ops' = [ops EXCEPT ![o] = [Issue(op, "history") EXCEPT !.pc = "u_hist"]]
                   /\ UNCHANGED compose
              ELSE /\ ops' = [ops EXCEPT ![o] = UpdateRefetch(op)]
                   /\ compose' = TRUE
    /\ UNCHANGED <<nextId, revisions, connected, hooksOn, storeRevisions, args, returned>>

\* history.createEach(updatedDocs, 'update') resolves or rejects
UpdateHistory(o, ok) ==
    /\ ops[o].kind = "update" /\ ops[o].pc = "u_hist"
    /\ IF ok
       THEN /\ revisions' = RevisionsAfter(revisions, ops[o].updatedDocs, "update", o)
            /\ store' = StoreAfterHistory(store, revisions, ops[o].updatedDocs)
            /\ ops' = [ops EXCEPT ![o] = UpdateRefetch(@)]
            /\ compose' = TRUE
       ELSE /\ ops[o].updatedDocs # <<>>
            /\ ops' = [ops EXCEPT ![o] = [@ EXCEPT !.logged = @ + 1, !.pc = "unanswered"]]
            /\ UNCHANGED <<store, revisions, compose>>
    /\ UNCHANGED <<nextId, connected, hooksOn, storeRevisions, args, returned>>

\* the re-fetch returns. With matches, this.searcher is undefined and its use
\* throws: find's catch hands the error to the callback when the throw happens
\* inside find's promise chain (no composition, or the composer calls back
\* synchronously); otherwise nothing catches it
UpdateFind3(o, caught) ==
    /\ ops[o].kind = "update" /\ ops[o].pc = "u_find3"
    /\ caught \/ compose
    /\ LET results == Find(store, IdsQuery(IdsOf(ops[o].updatedDocs)))
       IN  ops' = [ops EXCEPT ![o] =
             IF ops[o].matchedCount = 0
             THEN [Done(@, CbResults(results)) EXCEPT !.pc = "done"]
             ELSE IF caught
             THEN [Done(@, CbError(TypeError)) EXCEPT !.pc = "done"]
             ELSE [@ EXCEPT !.pc = "thrown"]]
    /\ UNCHANGED <<store, nextId, revisions, connected, compose, hooksOn, storeRevisions, args, returned>>

\* ------------------------------------------------------------------ delete
StoreAfterDelete(st, query) ==
    [i \in Ids |-> IF Matches(st[i], query) THEN NoDoc ELSE st[i]]

\* Model.prototype.delete up to its unfiltered find
DeleteCall(o, query, isRest) ==
    /\ Free(o)
    /\ LET op == [IdleOp EXCEPT !.kind = "delete", !.dbAtCall = connected,
                                !.query = query, !.isRest = isRest,
                                !.valid = ValidateQuery(query).success]
       IN  IF ~ValidateQuery(query).success
           THEN /\ ops' = [ops EXCEPT ![o] =
                             [Done(op, CbError(BadQueryError)) EXCEPT !.pc = "done"]]
                /\ UNCHANGED compose
           ELSE IF ~connected
           THEN /\ ops' = [ops EXCEPT ![o] =
                             [Done(op, CbError(createConnectionError)) EXCEPT !.pc = "done"]]
                /\ UNCHANGED compose
           ELSE /\ ops' = [ops EXCEPT ![o] = [Issue(op, "find") EXCEPT !.pc = "d_findAll"]]
                /\ compose' = FALSE
    /\ UNCHANGED <<store, nextId, revisions, connected, hooksOn, storeRevisions, args, returned>>

\* find({}) returns: allDocs; the find of the documents to delete is called
DeleteFindAll(o) ==
    /\ ops[o].kind = "delete" /\ ops[o].pc = "d_findAll"
    /\ ops' = [ops EXCEPT ![o] =
         [Issue(@, "find") EXCEPT !.allDocs = Len(Find(store, AllQuery)), !.pc = "d_find"]]
    /\ compose' = FALSE
    /\ UNCHANGED <<store, nextId, revisions, connected, hooksOn, storeRevisions, args, returned>>

\* deleteDocuments: database.delete is issued, with the query of the call (the
\* value the beforeDelete chain ended with is not used)
DeleteDocuments(op) == [Issue(op, "delete") EXCEPT !.pc = "d_store", !.usedQuery = op.query]

\* wait.then: the beforeDelete chain starts, or the delete
DeleteAfterWait(op) ==
    IF hooksOn
    THEN [op EXCEPT !.pc = "d_hooks", !.chains = <<StartChain(NumHooks)>>]
    ELSE DeleteDocuments(op)

\* delete without the not-found check
IsNotFoundNever(isRestIDQuery, deletedDocs) == FALSE

\* isRestIDQuery && (deletedDocs.length === 0)
IsNotFound(isRestIDQuery, deletedDocs) == isRestIDQuery /\ Len(deletedDocs) = 0

\* find(query) returns: deletedDocs; not-found, or the history write, or the hooks
DeleteFind(o) ==
    /\ ops[o].kind = "delete" /\ ops[o].pc = "d_find"
    /\ LET op == [ops[o] EXCEPT !.deletedDocs = Find(store, ops[o].query)]
       IN  ops' = [ops EXCEPT ![o] =
             IF IsNotFound(op.isRest, op.deletedDocs)
             THEN [Done(op, CbError(NotFoundError)) EXCEPT !.pc = "done"]
             ELSE IF storeRevisions /\ Len(op.deletedDocs) > 0
             THEN [Issue(op, "history") EXCEPT !.pc = "d_hist"]
             ELSE DeleteAfterWait(op)]
    /\ UNCHANGED <<store, nextId, revisions, connected, compose, hooksOn, storeRevisions, args, returned>>

\* the rejection of wait swallowed after logging, as update's catch does
DeleteWaitCatchSwallowed(op) == DeleteAfterWait([op EXCEPT !.logged = @ + 1])

\* the catch of wait.then: the error is logged and handed to the callback
DeleteWaitCatch(op) ==
    [Done([op EXCEPT !.logged = @ + 1], CbError(HistoryError)) EXCEPT !.pc = "done"]

\* history.createEach(deletedDocs, 'delete') resolves or rejects
DeleteHistory(o, ok) ==
    /\ ops[o].kind = "delete" /\ ops[o].pc = "d_hist"
    /\ IF ok
       THEN /\ revisions' = RevisionsAfter(revisions, ops[o].deletedDocs, "delete", o)
            /\ store' = StoreAfterHistory(store, revisions, ops[o].deletedDocs)
            /\ ops' = [ops EXCEPT ![o] = DeleteAfterWait(@)]
       ELSE /\ ops' = [ops EXCEPT ![o] = DeleteWaitCatch(@)]
            /\ UNCHANGED <<store, revisions>>
    /\ UNCHANGED <<nextId, connected, compose, hooksOn, storeRevisions, args, returned>>

\* a beforeDelete handler calls back
DeleteHook(o, outcome) ==
    /\ ops[o].kind = "delete" /\ ops[o].pc = "d_hooks"
    /\ \E h \in ops[o].chains[1].inflight :
         LET chain == ReduceStep(ops[o].chains[1], h, NumHooks, "beforeDelete", outcome)
             op == Noted([ops[o] EXCEPT !.chains[1] = chain], "beforeDelete", outcome)
         IN  ops' = [ops EXCEPT ![o] =
               IF ~chain.finished THEN op
               ELSE IF chain.err # NoErr
               THEN [Done(op, CbError(chain.err)) EXCEPT !.pc = "done"]
               ELSE DeleteDocuments(op)]
    /\ UNCHANGED <<store, nextId, revisions, connected, compose, hooksOn, storeRevisions, args, returned>>

\* searchHandler.delete and the afterDelete hooks without the test of deletedCount
AfterDeleteAlways(deletedCount) == <<"searchDelete", "afterDelete">>

\* what follows a storage delete that removed documents: searchHandler.delete
\* and the afterDelete hooks
AfterDelete(deletedCount) ==
    IF deletedCount > 0 THEN <<"searchDelete", "afterDelete">> ELSE <<>>

\* database.delete resolves: totalCount = allDocs.metadata.totalCount - deletedCount
DeleteStore(o) ==
    /\ ops[o].kind = "delete" /\ ops[o].pc = "d_store"
    /\ LET matched == Find(store, ops[o].query)
           op == [ops[o] EXCEPT !.modified = matched, !.after = AfterDelete(Len(matched))]
       IN  /\ store' = StoreAfterDelete(store, ops[o].query)
           /\ ops' = [ops EXCEPT ![o] =
                [Done(op, Cb(NoErr, TRUE, <<>>, Len(matched), op.allDocs - Len(matched)))
                   EXCEPT !.pc = "done"]]
    /\ UNCHANGED <<nextId, revisions, connected, compose, hooksOn, storeRevisions, args, returned>>

\* ------------------------------------------------------------------ get
\* the callback get was given. That of search reads results.results before it
\* calls done: without results this throws, into the catch of search when get
\* runs inside search's then handler (no beforeGet chain), into nothing otherwise
GetDone(op, cb) ==
    IF op.kind # "search" \/ cb.hasResult THEN [Done(op, cb) EXCEPT !.pc = "done"]
    ELSE IF op.chains = <<>> THEN [Done(op, CbError(TypeError)) EXCEPT !.pc = "done"]
    ELSE [op EXCEPT !.pc = "thrown"]

\* databaseGet: find's connection check, then database.find is issued
DatabaseGet(op) ==
    IF ~connected
    THEN GetDone(op, CbError(createConnectionError))
    ELSE [Issue(op, "find") EXCEPT !.pc = "g_find"]

\* Model.prototype.get once called: the beforeGet chain starts, or databaseGet
GetStart(op) ==
    IF hooksOn
    THEN [op EXCEPT !.pc = "g_before", !.chains = <<StartChain(NumHooks)>>]
    ELSE DatabaseGet(op)

\* Model.prototype.get: the beforeGet chain starts, or databaseGet
GetCall(o, query) ==
    /\ Free(o)
    /\ LET op == [IdleOp EXCEPT !.kind = "get", !.dbAtCall = connected, !.query = query]
       IN  ops' = [ops EXCEPT ![o] = GetStart(op)]
    /\ UNCHANGED <<store, nextId, revisions, connected, compose, hooksOn, storeRevisions, args, returned>>

\* a beforeGet handler calls back
GetBefore(o, outcome) ==
    /\ ops[o].kind \in {"get", "search"} /\ ops[o].pc = "g_before"
    /\ \E h \in ops[o].chains[1].inflight :
         LET chain == ReduceStep(ops[o].chains[1], h, NumHooks, "beforeGet", outcome)
             op == Noted([ops[o] EXCEPT !.chains[1] = chain], "beforeGet", outcome)
         IN  ops' = [ops EXCEPT ![o] =
               IF ~chain.finished THEN op
               ELSE IF chain.err # NoErr
               THEN GetDone(op, CbError(chain.err))
               ELSE DatabaseGet(op)]
    /\ UNCHANGED <<store, nextId, revisions, connected, compose, hooksOn, storeRevisions, args, returned>>

\* find returns: the afterGet chain starts over the results, or done
GetFind(o) ==
    /\ ops[o].kind \in {"get", "search"} /\ ops[o].pc = "g_find"
    /\ LET op == [ops[o] EXCEPT !.documents = Find(store, ops[o].query)]
       IN  ops' = [ops EXCEPT ![o] =
             IF hooksOn
             THEN [op EXCEPT !.pc = "g_after", !.chains = <<StartChain(NumHooks)>>]
             ELSE GetDone(op, CbResults(op.documents))]
    /\ UNCHANGED <<store, nextId, revisions, connected, compose, hooksOn, storeRevisions, args, returned>>

\* an afterGet handler calls back; the final callback reads finalResult.results,
\* which throws when the chain ended with null or undefined as its value
GetAfter(o, outcome) ==
    /\ ops[o].kind \in {"get", "search"} /\ ops[o].pc = "g_after"
    /\ \E h \in ops[o].chains[1].inflight :
         LET chain == ReduceStep(ops[o].chains[1], h, NumHooks, "afterGet", outcome)
             op == Noted([ops[o] EXCEPT !.chains[1] = chain], "afterGet", outcome)
         IN  ops' = [ops EXCEPT ![o] =
               IF ~chain.finished THEN op
               ELSE IF chain.memo # "value" THEN [op EXCEPT !.pc = "thrown"]
               ELSE GetDone(op, Cb(chain.err, TRUE, op.documents, 0, 0))]
    /\ UNCHANGED <<store, nextId, revisions, connected, compose, hooksOn, storeRevisions, args, returned>>

\* ------------------------------------------------------------------ find, count
\* the compose options a find can be called with: none, compose: true, compose: false
ComposeOpts == {"none", "true", "false"}

\* the value of this.compose after find has looked at its options
ComposeAfter(current, composeOpt) ==
    IF composeOpt = "none" THEN current ELSE composeOpt = "true"

\* Model.prototype.find up to database.find, and Model.prototype.count, which
\* validates the query itself before it calls find
FindWith(o, kind, query, composeOpt, includeHistory) ==
    /\ Free(o)
    /\ kind \in {"find", "count"}
    /\ LET op == [IdleOp EXCEPT !.kind = kind, !.dbAtCall = connected, !.query = query,
                                !.composeOpt = composeOpt,
                                !.includeHistory = includeHistory,
                                !.valid = ValidateQuery(query).success]
       IN  /\ compose' = IF kind = "count" /\ ~op.valid THEN compose
                         ELSE ComposeAfter(compose, composeOpt)
           /\ ops' = [ops EXCEPT ![o] =
                IF ~op.valid
                THEN [Done(op, CbError(BadQueryError)) EXCEPT !.pc = "done"]
                ELSE IF ~connected
                THEN [Done(op, CbError(createConnectionError)) EXCEPT !.pc = "done"]
                ELSE [Issue(op, "find") EXCEPT !.pc = "f_find"]]
    /\ UNCHANGED <<store, nextId, revisions, connected, hooksOn, storeRevisions, args, returned>>

\* find without options.includeHistory
FindCall(o, kind, query, composeOpt) == FindWith(o, kind, query, composeOpt, FALSE)

\* find with options.includeHistory: injectHistory is queued in doneQueue
FindHistoryCall(o, query) == FindWith(o, "find", query, "none", TRUE)

\* database.find resolves: the results are composed when this.compose is set at
\* that moment; count hands on the metadata only. runDoneQueue then calls
\* injectHistory when it was queued: one revisions lookup per document of a
\* result set that is not empty
FindThen(o) ==
    /\ ops[o].kind \in {"find", "count"} /\ ops[o].pc = "f_find"
    /\ LET results == Find(store, ops[o].query)
           op == [ops[o] EXCEPT !.composed = IF compose THEN "yes" ELSE "no"]
       IN  ops' = [ops EXCEPT ![o] =
             IF op.includeHistory /\ Len(results) > 0
             THEN [op EXCEPT !.pc = "f_inject", !.documents = results,
                             !.histories = [i \in DOMAIN results |-> "pending"]]
             ELSE [Done(op, IF op.kind = "count" THEN Cb(NoErr, TRUE, <<>>, 0, Len(results))
                            ELSE CbResults(results))
                     EXCEPT !.pc = "done"]]
    /\ UNCHANGED <<store, nextId, revisions, connected, compose, hooksOn, storeRevisions, args, returned>>

\* injectHistory: the callback of this.revisions for document idx of the result
\* set. With a list the document's _history is set, and the callback of the last
\* document resolves the promise, which hands the result set to the callback of
\* find; with an error formatResultSetForOutput(undefined) throws before either
InjectHistory(o, idx, ok) ==
    /\ ops[o].kind = "find" /\ ops[o].pc = "f_inject"
    /\ idx \in DOMAIN ops[o].histories
    /\ ops[o].histories[idx] = "pending"
    /\ LET set == [ops[o] EXCEPT !.histories[idx] = IF ok THEN "attached" ELSE "failed",
                                 !.logged = IF ok THEN @ ELSE @ + 1]
           op == IF ok /\ idx = Len(set.documents)
                 THEN Done([set EXCEPT !.delivered = set.histories], CbResults(set.documents))
                 ELSE set
           back == \A i \in DOMAIN op.histories : op.histories[i] # "pending"
       IN  ops' = [ops EXCEPT ![o] =
             [op EXCEPT !.pc = IF ~back THEN "f_inject"
                               ELSE IF op.callbacks # <<>> THEN "done" ELSE "unanswered"]]
    /\ UNCHANGED <<store, nextId, revisions, connected, compose, hooksOn, storeRevisions, args, returned>>
    /\ UNCHANGED <<store, nextId, revisions, connected, compose, hooksOn, storeRevisions, args, returned>>

\* the program points at which an operation waits for a database.find of find
FindPcs == {"f_find", "g_find", "u_find1", "u_find2", "u_find3", "d_findAll", "d_find"}

\* the catch of database.find in runFind: the error, translated, goes to the
\* callback find was given, and each caller hands it to its own callback (the
\* callback of search throws on it)
FindCatch(o, message) ==
    /\ ops[o].pc \in FindPcs
    /\ LET op == [ops[o] EXCEPT !.failed = message]
       IN  ops' = [ops EXCEPT ![o] =
             IF op.kind = "search" THEN [op EXCEPT !.pc = "thrown"]
             ELSE [Done(op, CbError(TranslateFailure(message))) EXCEPT !.pc = "done"]]
    /\ UNCHANGED <<store, nextId, revisions, connected, compose, hooksOn, storeRevisions, args, returned>>

\* the catch of database.update: the error goes to the callback as it is
UpdateStoreCatch(o, message) ==
    /\ ops[o].kind = "update" /\ ops[o].pc = "u_store"
    /\ ops' = [ops EXCEPT ![o] =
         [Done(@, CbError(RawError(message))) EXCEPT !.pc = "done", !.failed = message]]
    /\ UNCHANGED <<store, nextId, revisions, connected, compose, hooksOn, storeRevisions, args, returned>>

\* the catch of database.delete: the error goes to the callback as it is
DeleteStoreCatch(o, message) ==
    /\ ops[o].kind = "delete" /\ ops[o].pc = "d_store"
    /\ ops' = [ops EXCEPT ![o] =
         [Done(@, CbError(RawError(message))) EXCEPT !.pc = "done", !.failed = message]]
    /\ UNCHANGED <<store, nextId, revisions, connected, compose, hooksOn, storeRevisions, args, returned>>

\* ------------------------------------------------------------------ revisions, stats
\* _done of revisions: database.find of the document
RevisionsDone(op) == [Issue(op, "find") EXCEPT !.pc = "r_find"]

\* Model.prototype.revisions: _done, or a listener for the connect event
RevisionsCall(o, query, historyFilters) ==
    /\ Free(o)
    /\ query.k = "_id"
    /\ LET op == [IdleOp EXCEPT !.kind = "revisions", !.dbAtCall = connected, !.query = query,
                               !.historyFilters = historyFilters]
       IN  ops' = [ops EXCEPT ![o] =
             IF connected THEN RevisionsDone(op) ELSE [op EXCEPT !.pc = "r_wait"]]
    /\ UNCHANGED <<store, nextId, revisions, connected, compose, hooksOn, storeRevisions, args, returned>>

\* the document is found: its revisions are looked up, or the result is []
RevisionsFind(o) ==
    /\ ops[o].kind = "revisions" /\ ops[o].pc = "r_find"
    /\ LET op == [ops[o] EXCEPT !.documents = Find(store, ops[o].query)]
       IN  ops' = [ops EXCEPT ![o] =
             IF Len(op.documents) > 0 /\ storeRevisions
             THEN [Issue(op, "find") EXCEPT !.pc = "r_hist"]
             ELSE [Done(op, CbResults(<<>>)) EXCEPT !.pc = "done"]]
    /\ UNCHANGED <<store, nextId, revisions, connected, compose, hooksOn, storeRevisions, args, returned>>

\* the filters a caller of revisions passes: none, on the name, on the _id
HistoryFilters ==
    {AllQuery}
    \cup {[k |-> "name", id |-> 0, name |-> n, ids |-> {}] : n \in Names}
    \cup {[k |-> "_id", id |-> r, name |-> NoName, ids |-> {}] : r \in 1..MaxBatch}

\* historyQuery._id = {'$in': _history}: the assignment replaces a condition
\* the caller put on _id
HistoryQuery(historyFilters, history) ==
    [historyFilters EXCEPT !.k = IF @ = "_id" THEN "all" ELSE @,
                           !.id = 0,
                           !.ids = Range(history)]

\* the revisions that match historyQuery, in the order of the revision
\* collection; the _id of a revision is its position
RECURSIVE RevisionDocs(_, _, _)
RevisionDocs(revs, historyQuery, i) ==
    IF i > Len(revs) THEN <<>>
    ELSE (IF /\ i \in historyQuery.ids
             /\ historyQuery.k = "name" => revs[i].doc.name = historyQuery.name
          THEN <<revs[i].doc>> ELSE <<>>)
         \o RevisionDocs(revs, historyQuery, i + 1)

\* the find in the revision collection resolves
RevisionsHistory(o) ==
    /\ ops[o].kind = "revisions" /\ ops[o].pc = "r_hist"
    /\ ops' = [ops EXCEPT ![o] =
         [Done(@, CbResults(RevisionDocs(revisions,
                      HistoryQuery(ops[o].historyFilters, ops[o].documents[1]._history), 1)))
            EXCEPT !.pc = "done"]]
    /\ UNCHANGED <<store, nextId, revisions, connected, compose, hooksOn, storeRevisions, args, returned>>

\* the catches of the two finds of revisions: the error goes on as it is
RevisionsCatch(o, message) ==
    /\ ops[o].kind = "revisions" /\ ops[o].pc \in {"r_find", "r_hist"}
    /\ ops' = [ops EXCEPT ![o] =
         [Done(@, CbError(RawError(message))) EXCEPT !.pc = "done", !.failed = message]]
    /\ UNCHANGED <<store, nextId, revisions, connected, compose, hooksOn, storeRevisions, args, returned>>

\* _done of stats: database.stats
StatsDone(op) == [Issue(op, "stats") EXCEPT !.pc = "s_stats"]

\* Model.prototype.stats: _done, or a listener for the connect event
StatsCall(o) ==
    /\ Free(o)
    /\ LET op == [IdleOp EXCEPT !.kind = "stats", !.dbAtCall = connected]
       IN  ops' = [ops EXCEPT ![o] =
             IF connected THEN StatsDone(op) ELSE [op EXCEPT !.pc = "s_wait"]]
    /\ UNCHANGED <<store, nextId, revisions, connected, compose, hooksOn, storeRevisions, args, returned>>

\* database.stats resolves, or rejects (a connector without stats: 'Not implemented')
StatsThen(o, outcome) ==
    /\ ops[o].kind = "stats" /\ ops[o].pc = "s_stats"
    /\ ops' = [ops EXCEPT ![o] =
         IF outcome = "ok"
         THEN [Done(@, Cb(NoErr, TRUE, <<>>, 0, Len(Find(store, AllQuery)))) EXCEPT !.pc = "done"]
         ELSE [Done(@, CbError(RawError(outcome))) EXCEPT !.pc = "done", !.failed = outcome]]
    /\ UNCHANGED <<store, nextId, revisions, connected, compose, hooksOn, storeRevisions, args, returned>>

\* the connection emits connect: the listeners of revisions and stats run
Connect ==
    /\ ~connected
    /\ connected' = TRUE
    /\ ops' = [o \in Ops |->
                 CASE ops[o].pc = "r_wait" -> RevisionsDone(ops[o])
                   [] ops[o].pc = "s_wait" -> StatsDone(ops[o])
                   [] OTHER -> ops[o]]
    /\ UNCHANGED <<store, nextId, revisions, compose, hooksOn, storeRevisions, args, returned>>

\* ------------------------------------------------------------------ search
\* Model.prototype.search up to searchHandler.find
SearchCall(o, canUse, longEnough) ==
    /\ Free(o)
    /\ LET op == [IdleOp EXCEPT !.kind = "search", !.dbAtCall = connected]
       IN  ops' = [ops EXCEPT ![o] =
             IF ~canUse THEN [Done(op, CbError(NotImplementedError)) EXCEPT !.pc = "done"]
             ELSE IF ~longEnough THEN [Done(op, CbError(BadRequestError)) EXCEPT !.pc = "done"]
             ELSE [op EXCEPT !.pc = "s_index"]]
    /\ UNCHANGED <<store, nextId, revisions, connected, compose, hooksOn, storeRevisions, args, returned>>

\* searchHandler.find resolves with a query for the ids of the hits, which goes
\* to get, or rejects
SearchThen(o, ok) ==
    /\ ops[o].kind = "search" /\ ops[o].pc = "s_index"
    /\ ops' = [ops EXCEPT ![o] =
         IF ok THEN GetStart([@ EXCEPT !.query = IdsQuery({1})])
         ELSE [Done(@, CbError(RawError("OTHER"))) EXCEPT !.pc = "done", !.failed = "OTHER"]]
    /\ UNCHANGED <<store, nextId, revisions, connected, compose, hooksOn, storeRevisions, args, returned>>

\* ------------------------------------------------- reference fields: queries
\* Three collections linked by reference fields: books.ref names authors and
\* authors.ref names countries; authors and countries carry a name.
RootModel == "books"

\* the field of a collection's schema: its type and settings.collection
getField(model, field) ==
    IF field = "ref" /\ model = "books"
    THEN [type |-> "reference", collection |-> "authors"]
    ELSE IF field = "ref" /\ model = "authors"
    THEN [type |-> "reference", collection |-> "countries"]
    ELSE [type |-> "string", collection |-> ""]

RefIds == 1..NumRef
RefNames == {"v", "w"}
\* the values a stored reference field holds
RefValues == {{i} : i \in RefIds}

\* the contents of the three collections
RefDbs == [books : [RefIds -> RefValues],
           authors : [RefIds -> [name : RefNames, ref : RefValues]],
           countries : [RefIds -> RefNames]]

\* document i of a collection
RefDoc(db, collection, i) ==
    CASE collection = "books" -> [_id |-> i, name |-> "", ref |-> db.books[i]]
      [] collection = "authors" ->
           [_id |-> i, name |-> db.authors[i].name, ref |-> db.authors[i].ref]
      [] OTHER -> [_id |-> i, name |-> db.countries[i], ref |-> {}]

\* the conditions of a query: on the name, on the reference field, and the
\* dot-notation path the caller wrote
NameIs(value) == [k |-> "name", value |-> value, ids |-> <<>>, path |-> <<>>]
ContainsAny(ids) == [k |-> "$containsAny", value |-> "", ids |-> ids, path |-> <<>>]
In(ids) == [k |-> "$in", value |-> "", ids |-> ids, path |-> <<>>]
RefIs(id) == [k |-> "eq", value |-> "", ids |-> <<id>>, path |-> <<>>]
RefIsEmptyString == [k |-> "eq", value |-> "", ids |-> <<>>, path |-> <<>>]
DotPath(path, value) == [k |-> "path", value |-> value, ids |-> <<>>, path |-> path]

\* the datastore's reading of a condition; it knows no field named by a path
RefMatches(doc, query) ==
    CASE query.k = "name" -> doc.name = query.value
      [] query.k \in {"$containsAny", "$in"} -> doc.ref \cap Range(query.ids) # {}
      [] query.k = "eq" -> query.ids # <<>> /\ doc.ref = {query.ids[1]}
      [] OTHER -> FALSE

\* model.find: the ids of the matching documents, in _id order
RECURSIVE RefFindFrom(_, _, _, _)
RefFindFrom(db, collection, query, i) ==
    IF i > NumRef THEN <<>>
    ELSE (IF RefMatches(RefDoc(db, collection, i), query) THEN <<i>> ELSE <<>>)
         \o RefFindFrom(db, collection, query, i + 1)
RefFind(db, collection, query) == RefFindFrom(db, collection, query, 1)

NullChain == <<"null">>

\* every node of the chain is the root model
RECURSIVE createModelChainRoot(_, _, _)
createModelChainRoot(chain, fields, index) ==
    IF index > Len(fields) THEN chain
    ELSE createModelChainRoot(Append(chain, RootModel), fields, index + 1)

\* createModelChain: the reduce over the nodes of a path, from node index on
RECURSIVE createModelChainFrom(_, _, _)
createModelChainFrom(chain, fields, index) ==
    IF index > Len(fields) THEN chain
    ELSE IF chain = NullChain THEN chain
    ELSE IF chain = <<>>
    THEN createModelChainFrom(<<RootModel>>, fields, index + 1)
    ELSE LET nodeModel == chain[Len(chain)]
             referenceField == getField(nodeModel, fields[index - 1])
         IN  IF referenceField.type # "reference" THEN NullChain
             ELSE IF referenceField.collection = ""
             THEN createModelChainFrom(Append(chain, nodeModel), fields, index + 1)
             ELSE createModelChainFrom(Append(chain, referenceField.collection),
                                       fields, index + 1)

createModelChain(fields) == createModelChainFrom(<<>>, fields, 1)

\* processTree on the subtree under the first `depth` keys of a path that
\* ends in a condition on the name: the condition it resolves to and the
\* finds it issued. The test for an empty $containsAny returns from the
\* callback of forEach only, so the find that follows is always issued.
RECURSIVE processTree(_, _, _, _)
processTree(db, keys, value, depth) ==
    LET key == keys[depth + 1]
        below == processTree(db, keys, value, depth + 1)
        isObject == depth + 1 < Len(keys)
        query == IF isObject THEN below.query ELSE NameIs(value)
        finds == IF isObject THEN below.finds ELSE <<>>
        modelChain == createModelChain(SubSeq(keys, 1, depth + 1))
        model == modelChain[Len(modelChain)]
    IN  IF depth = 0 THEN [query |-> query, finds |-> finds]
        ELSE [query |-> ContainsAny(RefFind(db, model, query)),
              finds |-> Append(finds, [collection |-> model, query |-> query])]

\* the paths of the model: one hop and two hops through reference fields
RefPath(hops) == IF hops = 1 THEN <<"ref", "name">> ELSE <<"ref", "ref", "name">>

\* beforeQuery of the reference field type
BeforeQuery ==
    /\ args.fn = "beforeQuery"
    /\ returned.status = "pending"
    /\ LET tree == processTree(args.db, RefPath(args.hops), args.value, 0)
       IN  returned' = [status |-> "done", err |-> NoErr, query |-> tree.query,
                        finds |-> tree.finds, results |-> <<>>]
    /\ UNCHANGED <<engine, args>>

\* find's rewrite of a one-hop reference path (keyParts.length = 2) and the
\* find on the collection itself that follows it
FindReference ==
    /\ args.fn = "find"
    /\ returned.status = "pending"
    /\ LET collection == getField(RootModel, "ref").collection
           collectionQuery == NameIs(args.value)
           ids == RefFind(args.db, collection, collectionQuery)
           query == IF ids # <<>>
                    THEN IF args.multiple THEN ContainsAny(ids) ELSE RefIs(ids[1])
                    ELSE IF args.multiple THEN In(<<>>) ELSE RefIsEmptyString
           lookup == [collection |-> collection, query |-> collectionQuery]
       IN  returned' =
             IF args.fails
             THEN [status |-> "done", err |-> RawError("OTHER"),
                   query |-> DotPath(RefPath(1), args.value),
                   finds |-> <<lookup>>, results |-> <<>>]
             ELSE [status |-> "done", err |-> NoErr, query |-> query,
                   finds |-> <<lookup, [collection |-> RootModel, query |-> query]>>,
                   results |-> RefFind(args.db, RootModel, query)]
    /\ UNCHANGED <<engine, args>>

\* the calls of the two rewriters over every content of the collections
RewriteCalls ==
    [fn : {"beforeQuery"}, hops : {1, 2}, value : {"v"}, multiple : {TRUE},
     fails : {FALSE}, db : RefDbs]
    \cup [fn : {"find"}, hops : {1}, value : {"v"}, multiple : BOOLEAN,
          fails : BOOLEAN, db : RefDbs]

\* --------------------------------------------- reference fields: composition
\* The values of a reference field and of a composed one: a raw id, null, or
\* a document with a reference field of its own.
Raw(id) == [t |-> "id", _id |-> id, ref |-> <<>>, isArray |-> FALSE, annotated |-> FALSE]
Null == [t |-> "null", _id |-> 0, ref |-> <<>>, isArray |-> FALSE, annotated |-> FALSE]
Document(id, ref, isArray) ==
    [t |-> "doc", _id |-> id, ref |-> ref, isArray |-> isArray, annotated |-> FALSE]

\* schema.settings.collection of the field, and a second collection that only
\* a document's id mapping names
Declared == "authors"
Other == "editors"
\* schema.settings.collection of a field that names no collection
Unset == "unset"

StoredIds == 1..NumStored

\* the stored document with an _id: it references the next one, the last
\* holds an empty array
Stored(id) == Document(id, IF id < NumStored THEN <<Raw(id + 1)>> ELSE <<>>, TRUE)

\* this.shouldCompose({composeOverride, level}): composition reaches down to
\* the configured depth
shouldCompose(level, depth) == level <= depth

\* ids.filter((id, index) => id && ids.lastIndexOf(id) === index)
LastIndexOf(ids, id) == CHOOSE i \in DOMAIN ids :
    ids[i] = id /\ \A j \in DOMAIN ids : ids[j] = id => j <= i
SelectIndexes(seq, keep(_)) ==
    LET F[i \in 0..Len(seq)] ==
          IF i = 0 THEN <<>>
          ELSE IF keep(i) THEN Append(F[i - 1], seq[i]) ELSE F[i - 1]
    IN  F[Len(seq)]
ResolveDuplicates(ids) ==
    LET last(i) == LastIndexOf(ids, ids[i]) = i
    IN  SelectIndexes(ids, last)

\* idMapping[id] || schema.settings.collection
ReferenceCollection(cfg, mapping, id) ==
    IF id \in DOMAIN mapping THEN mapping[id]
    ELSE IF cfg.collection # Unset THEN cfg.collection
    ELSE cfg.name

\* Object.keys(referenceCollections): the collections in order of first use
ReferenceCollections(cfg, mapping, ids) ==
    LET first(i) == \A j \in 1..(i - 1) :
                       ReferenceCollection(cfg, mapping, ids[j])
                           # ReferenceCollection(cfg, mapping, ids[i])
    IN  [i \in DOMAIN SelectIndexes(ids, first) |->
            ReferenceCollection(cfg, mapping, SelectIndexes(ids, first)[i])]

\* the ids grouped under a collection
IdsIn(cfg, mapping, ids, collection) ==
    LET there(i) == ReferenceCollection(cfg, mapping, ids[i]) = collection
    IN  SelectIndexes(ids, there)

\* resolvedDocuments.filter(Boolean): null goes, ids and documents stay
FilterBoolean(values) ==
    LET truthy(i) == values[i].t # "null"
    IN  SelectIndexes(values, truthy)

RECURSIVE Flatten(_)
Flatten(seqs) == IF seqs = <<>> THEN <<>> ELSE Head(seqs) \o Flatten(Tail(seqs))

\* nested documents are formatted at the same level
SameLevel(level) == level

\* level + 1, the level nested documents are formatted at
NextLevel(level) == level + 1

\* beforeOutput for the reference field of input, a document whose id mapping
\* is mapping: the value it returns and the finds it and the nested calls
\* issued. model.formatForOutput composes the field of a fetched document
\* with beforeOutput one level down and merges what it returns.
RECURSIVE beforeOutput(_, _, _, _)
beforeOutput(cfg, input, mapping, level) ==
    IF input.ref = <<>> \/ ~shouldCompose(level, cfg.depth)
    THEN [value |-> input, isInput |-> TRUE, finds |-> <<>>]
    ELSE
    LET values == [i \in DOMAIN input.ref |-> input.ref[i]._id]
        ids == IF cfg.strict THEN values ELSE ResolveDuplicates(values)
        collections == ReferenceCollections(cfg, mapping, ids)
        finds == [c \in DOMAIN collections |->
                    [op |-> "find", collection |-> collections[c], level |-> level,
                     ids |-> IdsIn(cfg, mapping, ids, collections[c])]]
        found(id) == cfg.home[id] = ReferenceCollection(cfg, mapping, id)
        formatted == [id \in {i \in Range(ids) : found(i)} |->
                        beforeOutput([cfg EXCEPT !.name = cfg.home[id]], Stored(id),
                                     <<>>, NextLevel(level))]
        documents == [id \in DOMAIN formatted |->
                        IF formatted[id].isInput THEN formatted[id].value
                        ELSE [Stored(id) EXCEPT !.ref = formatted[id].value.ref,
                                                !.annotated = formatted[id].value.annotated]]
        foundAt(i) == found(ids[i])
        composedIds == SelectIndexes(ids, foundAt)
        resolved == [i \in DOMAIN ids |->
                       IF found(ids[i]) THEN documents[ids[i]]
                       ELSE IF cfg.strict THEN Null ELSE Raw(ids[i])]
        resolvedDocuments == IF cfg.strict THEN resolved ELSE FilterBoolean(resolved)
        nested == [i \in DOMAIN composedIds |-> formatted[composedIds[i]].finds]
    IN  [value |-> [t |-> "output", _id |-> 0,
                    ref |-> IF input.isArray THEN resolvedDocuments
                            ELSE SubSeq(resolvedDocuments, 1, 1),
                    isArray |-> input.isArray,
                    annotated |-> Len(composedIds) > 0],
         isInput |-> FALSE,
         finds |-> finds \o Flatten(nested)]

\* the input object is assigned the composed value
AfterOutputInPlace(input, output) == [input EXCEPT !.ref = output.ref]

\* the input object after the call: beforeOutput assigns nothing to it
AfterOutput(input, output) == input

\* document[idMappingField]: the ids of the field that live in the other
\* collection, when the document carries a mapping
IdMapping(home, mapped) ==
    IF mapped THEN [id \in {i \in StoredIds : home[i] = Other} |-> Other] ELSE <<>>

\* the field's settings and the model beforeOutput is called on in a call
Settings(call) ==
    [strict |-> call.strict, home |-> call.home, depth |-> call.depth,
     collection |-> call.collection, name |-> RootModel]

\* what the call of beforeOutput at level 1 returns and issues
Result(call) ==
    beforeOutput(Settings(call), call.input, IdMapping(call.home, call.mapped), 1)

\* the collections of the finds issued at level 1
Level1(finds) == {finds[f].collection : f \in {g \in DOMAIN finds : finds[g].level = 1}}

\* beforeOutput at level 1 up to Promise.all: one find per collection is issued
BeforeOutputFinds ==
    /\ args.fn = "beforeOutput"
    /\ returned.status = "pending"
    /\ ~Result(args).isInput
    /\ returned' = [status |-> "fetching", issued |-> Level1(Result(args).finds),
                    resolved |-> {}]
    /\ UNCHANGED <<engine, args>>

\* the find on one collection has resolved and the documents it returned have
\* been formatted one level down (the inner Promise.all)
FindResolves(collection) ==
    /\ args.fn = "beforeOutput"
    /\ returned.status = "fetching"
    /\ collection \in returned.issued \ returned.resolved
    /\ returned' = [returned EXCEPT !.resolved = @ \cup {collection}]
    /\ UNCHANGED <<engine, args>>

\* a join that resolves with the first promise to resolve
PromiseRace(resolved, issued) == resolved # {}

\* Promise.all resolves once every promise it was given has resolved
PromiseAll(resolved, issued) == resolved = issued

\* beforeOutput of the reference field type, called at level 1: the early
\* return of the input, or the reassembly in the then of Promise.all
BeforeOutput ==
    /\ args.fn = "beforeOutput"
    /\ \/ returned.status = "pending" /\ Result(args).isInput
       \/ /\ returned.status = "fetching"
          /\ PromiseAll(returned.resolved, returned.issued)
    /\ LET result == Result(args)
       IN  /\ returned' = [status |-> "done", given |-> args,
                           value |-> result.value, isInput |-> result.isInput,
                           finds |-> result.finds,
                           resolved |-> IF returned.status = "fetching"
                                        THEN returned.resolved ELSE {}]
           /\ args' = [args EXCEPT !.input = AfterOutput(@, result.value)]
    /\ UNCHANGED engine

\* the values of the field: an array of up to two ids or a single id
ComposeInputs ==
    {Document(0, <<>>, TRUE)}
    \cup {Document(0, <<Raw(i)>>, isArray) : i \in StoredIds, isArray \in BOOLEAN}
    \cup {Document(0, <<Raw(i), Raw(j)>>, TRUE) : i \in StoredIds, j \in StoredIds}

\* the calls of beforeOutput: every field value, strictness, depth, home of
\* the referenced documents and presence of an id mapping
ComposeCalls ==
    [fn : {"beforeOutput"}, input : ComposeInputs, strict : BOOLEAN,
     home : [StoredIds -> {Declared, Other, "none"}], mapped : BOOLEAN,
     depth : 0..MaxDepth, collection : {Declared, Unset}]

\* ------------------------------------------------------- saving references
\* The values of a reference field handed to beforeSave: a falsy value, an id
\* string, or a sub-document with or without an _id (0: none); the last two
\* given plainly or as the _data of the multi-collection format, whose
\* _collection is then named by collection.
Falsy == [t |-> "null", _id |-> 0, collection |-> Unset]
Id(id, collection) == [t |-> "id", _id |-> id, collection |-> collection]
SubDocument(id, collection) == [t |-> "doc", _id |-> id, collection |-> collection]

\* value[collectionField] && value[dataField]
IsMultiCollection(value) == value.collection # Unset

\* every inserted sub-document is entered in the id mapping
NeedsMappingAlways(value) == TRUE

\* needsMapping: the sub-document came as the _data of the multi-collection format
NeedsMapping(value) == IsMultiCollection(value)

\* the collection a sub-document is written to: referenceCollection when it is
\* set, else the model of the field itself
SaveCollection(settings, value) ==
    IF IsMultiCollection(value) THEN value.collection
    ELSE IF settings # Unset THEN settings
    ELSE RootModel

\* the _id the datastore gives the sub-document created for position i
CreatedId(i) == MaxValues + i

\* values.map up to the first promise: ids and falsy values are returned as
\* they are, the id given as _data is entered in idMapping, and each
\* sub-document starts an insertion
BeforeSaveMap ==
    /\ args.fn = "beforeSave"
    /\ returned.status = "pending"
    /\ LET values == args.values
           strings == {i \in DOMAIN values : values[i].t = "id" /\ IsMultiCollection(values[i])}
       IN  returned' =
             [status |-> "saving",
              insertions |-> [i \in DOMAIN values |->
                                IF values[i].t = "doc" THEN [t |-> "pending", _id |-> 0]
                                ELSE [t |-> values[i].t, _id |-> values[i]._id]],
              idMapping |-> [id \in {values[i]._id : i \in strings} |->
                               values[CHOOSE i \in strings :
                                          /\ values[i]._id = id
                                          /\ \A j \in strings :
                                                values[j]._id = id => j <= i].collection],
              calls |-> <<>>]
    /\ UNCHANGED <<engine, args>>

\* the insertion of position i resolves: formatForInput, then model.update for
\* a sub-document with an _id or model.create for one without, then the id is
\* entered in idMapping when needsMapping is set; or one of them rejects, and
\* with it Promise.all
InsertionResolves(i, ok) ==
    /\ args.fn = "beforeSave"
    /\ returned.status = "saving"
    /\ i \in DOMAIN returned.insertions
    /\ returned.insertions[i].t = "pending"
    /\ LET value == args.values[i]
           collection == SaveCollection(args.collection, value)
           id == IF value._id # 0 THEN value._id ELSE CreatedId(i)
           call == [op |-> IF value._id # 0 THEN "update" ELSE "create",
                    collection |-> collection, _id |-> id, at |-> i]
           mapped == [k \in DOMAIN returned.idMapping \cup {id} |->
                        IF k = id THEN collection ELSE returned.idMapping[k]]
       IN  returned' =
             IF ~ok THEN [status |-> "rejected"]
             ELSE [returned EXCEPT !.insertions[i] = [t |-> "id", _id |-> id],
                                   !.idMapping = IF NeedsMapping(value) THEN mapped ELSE @,
                                   !.calls = Append(@, call)]
    /\ UNCHANGED <<engine, args>>

\* the then of Promise.all(insertions): the id mapping and the field, an array
\* when the input was one
BeforeSave ==
    /\ args.fn = "beforeSave"
    /\ returned.status = "saving"
    /\ PromiseAll({i \in DOMAIN returned.insertions : returned.insertions[i].t # "pending"},
                  DOMAIN returned.insertions)
    /\ returned' = [status |-> "done", given |-> args,
                    value |-> returned.insertions, isArray |-> args.isArray,
                    idMapping |-> returned.idMapping, calls |-> returned.calls]
    /\ UNCHANGED <<engine, args>>

\* the elements of a field value
SaveValues ==
    {Falsy}
    \cup {Id(id, c) : id \in 1..MaxValues, c \in {Unset, Other}}
    \cup {SubDocument(id, c) : id \in 0..MaxValues, c \in {Unset, Other}}

\* the calls of beforeSave: a single value or an array of up to MaxValues
\* values, on a field with or without a configured collection
SaveCalls ==
    [fn : {"beforeSave"}, isArray : {FALSE}, values : [1..1 -> SaveValues],
     collection : {Declared, Unset}]
    \cup [fn : {"beforeSave"}, isArray : {TRUE},
          values : UNION {[1..n -> SaveValues] : n \in 0..MaxValues},
          collection : {Declared, Unset}]

\* ------------------------------------------------------------- result sets
\* Field names are sequences of characters: an internal field under either
\* prefix and a plain field. A document gives each name a value, "absent"
\* where it has no such field.
FieldNames == {<<"$", "i">>, <<"_", "i">>, <<"n">>}
FieldValues == {"absent", "null", "x"}
\* config.get('internalFieldsPrefix')
Prefixes == {"_", "$"}

\* the order of Array.prototype.sort on field names (UTF-16 code units)
CharCode(c) == CASE c = "$" -> 36 [] c = "_" -> 95 [] c = "i" -> 105 [] OTHER -> 110
RECURSIVE SortsBefore(_, _)
SortsBefore(f, g) ==
    IF f = <<>> THEN g # <<>>
    ELSE IF g = <<>> THEN FALSE
    ELSE IF Head(f) = Head(g) THEN SortsBefore(Tail(f), Tail(g))
    ELSE CharCode(Head(f)) < CharCode(Head(g))

\* field.indexOf(prefixes.from) === 0 ? prefixes.to + field.slice(1) : field
Property(field, from, to) == IF Head(field) = from THEN <<to>> \o Tail(field) ELSE field

\* every value is copied
KeptAlways(value) == TRUE

\* document[field] !== null
Kept(value) == value # "null"

\* newDocument: the fields are assigned in sorted order, so the last of the
\* fields that share a property gives it its value
formatDocument(document, from, to) ==
    [p \in FieldNames |->
        LET sources == {f \in FieldNames : /\ document[f] # "absent"
                                           /\ Kept(document[f])
                                           /\ Property(f, from, to) = p}
        IN  IF sources = {} THEN "absent"
            ELSE document[CHOOSE f \in sources :
                              \A g \in sources : g = f \/ SortsBefore(g, f)]]

\* formatResultSet(results, formatForInput): results is an array (multiple)
\* or a single document
formatResultSet(results, formatForInput, internalFieldsPrefix) ==
    LET from == IF formatForInput THEN internalFieldsPrefix ELSE "_"
        to == IF formatForInput THEN "_" ELSE internalFieldsPrefix
    IN  [multiple |-> results.multiple,
         documents |-> [i \in DOMAIN results.documents |->
                           formatDocument(results.documents[i], from, to)]]

FormatResultSetForInput ==
    /\ args.fn = "formatResultSet"
    /\ returned.status = "pending"
    /\ returned' = [status |-> "input",
                    value |-> formatResultSet(args.results, TRUE, args.prefix)]
    /\ UNCHANGED <<engine, args>>

FormatResultSetForOutput ==
    /\ args.fn = "formatResultSet"
    /\ returned.status = "input"
    /\ returned' = [status |-> "done",
                    value |-> formatResultSet(returned.value, FALSE, args.prefix)]
    /\ UNCHANGED <<engine, args>>

\* a single document or an array of up to MaxResults documents
ResultSets ==
    [multiple : {FALSE}, documents : [1..1 -> [FieldNames -> FieldValues]]]
    \cup UNION {[multiple : {TRUE}, documents : [1..n -> [FieldNames -> FieldValues]]] :
                  n \in 0..MaxResults}

FormatCalls == [fn : {"formatResultSet"}, results : ResultSets, prefix : Prefixes]

\* ------------------------------------------------------------------ system
\* no operation has been called yet
Unused == \A o \in Ops : ops[o].kind = "none"

CreateSteps ==
    \/ \E o \in Ops, idx \in 1..MaxBatch, ok \in BOOLEAN : CreateInline(o, idx, ok)
    \/ \E o \in Ops, outcome \in {"ok"} \cup StorageFailures : CreateInsert(o, outcome)

UpdateSteps ==
    \/ \E o \in Ops : UpdateFind1(o)
    \/ \E o \in Ops, ok \in BOOLEAN : UpdateInline(o, ok)
    \/ \E o \in Ops : UpdateFind2(o)
    \/ \E o \in Ops : UpdateStore(o)
    \/ \E o \in Ops, ok \in BOOLEAN : UpdateHistory(o, ok)
    \/ \E o \in Ops, caught \in BOOLEAN : UpdateFind3(o, caught)

DeleteSteps ==
    \/ \E o \in Ops : DeleteFindAll(o)
    \/ \E o \in Ops : DeleteFind(o)
    \/ \E o \in Ops, ok \in BOOLEAN : DeleteHistory(o, ok)
    \/ \E o \in Ops : DeleteStore(o)

GetSteps ==
    \/ \E o \in Ops, outcome \in {"ok", "reject"} : GetBefore(o, outcome)
    \/ \E o \in Ops : GetFind(o)
    \/ \E o \in Ops, outcome \in HookOutcomes : GetAfter(o, outcome)

HookSteps ==
    \/ \E o \in Ops, idx \in 1..MaxBatch, outcome \in QueryHookOutcomes : CreateHook(o, idx, outcome)
    \/ \E o \in Ops, outcome \in QueryHookOutcomes : UpdateHook(o, outcome)
    \/ \E o \in Ops, outcome \in QueryHookOutcomes : DeleteHook(o, outcome)

\* the calls of the public operations, with every input of the model
Calls ==
    \/ \E o \in Ops, documents \in Batches : CreateCall(o, documents)
    \/ \E o \in Ops, query \in Queries, payload \in {"b"}, isRest \in BOOLEAN :
         (isRest => query.k = "_id") /\ UpdateCall(o, query, payload, isRest)
    \/ \E o \in Ops, query \in Queries, isRest \in BOOLEAN :
         (isRest => query.k = "_id") /\ DeleteCall(o, query, isRest)

\* the calls of find and count, with every compose option
FindCalls ==
    \E o \in Ops, kind \in {"find", "count"}, query \in Queries, composeOpt \in ComposeOpts :
        FindCall(o, kind, query, composeOpt)

\* the calls of revisions, stats and search, and of find with its history
OtherCalls ==
    \/ \E o \in Ops, query \in Queries : FindHistoryCall(o, query)
    \/ \E o \in Ops, query \in Queries, historyFilters \in HistoryFilters :
         RevisionsCall(o, query, historyFilters)
    \/ \E o \in Ops : StatsCall(o)
    \/ \E o \in Ops, canUse \in BOOLEAN, longEnough \in BOOLEAN : SearchCall(o, canUse, longEnough)

\* the calls whose query or update payload fails validation
InvalidCalls ==
    \/ \E o \in Ops, query \in Queries \cup {BadQuery}, payload \in {"b", BadValue} :
         (query = BadQuery \/ payload = BadValue) /\ UpdateCall(o, query, payload, FALSE)
    \/ \E o \in Ops : DeleteCall(o, BadQuery, FALSE)
    \/ \E o \in Ops, kind \in {"find", "count"}, composeOpt \in ComposeOpts :
         FindCall(o, kind, BadQuery, composeOpt)

FindSteps == \E o \in Ops : FindThen(o)

\* the rejections of the datastore's promises
CatchSteps ==
    \/ \E o \in Ops, message \in StorageFailures : FindCatch(o, message)
    \/ \E o \in Ops, message \in StorageFailures : UpdateStoreCatch(o, message)
    \/ \E o \in Ops, message \in StorageFailures : DeleteStoreCatch(o, message)
    \/ \E o \in Ops, message \in StorageFailures : RevisionsCatch(o, message)

OtherSteps ==
    \/ \E o \in Ops, idx \in 1..MaxDocs, ok \in BOOLEAN : InjectHistory(o, idx, ok)
    \/ \E o \in Ops : RevisionsFind(o)
    \/ \E o \in Ops : RevisionsHistory(o)
    \/ \E o \in Ops, outcome \in {"ok"} \cup StorageFailures : StatsThen(o, outcome)
    \/ \E o \in Ops, ok \in BOOLEAN : SearchThen(o, ok)
    \/ Connect

\* one operation, with every input, configuration and outcome of its steps
Next ==
    \/ Unused /\ Calls
    \/ \E o \in Ops, query \in Queries : Unused /\ GetCall(o, query)
    \/ Unused /\ FindCalls
    \/ Unused /\ OtherCalls
    \/ Unused /\ InvalidCalls
    \/ CreateSteps \/ UpdateSteps \/ DeleteSteps \/ GetSteps \/ HookSteps
    \/ FindSteps \/ CatchSteps \/ OtherSteps

Spec == Init /\ [][Next]_vars

\* create, update and delete calls interleaving at every asynchronous step, on a
\* connected collection without hooks
InitConc == Init /\ connected /\ ~hooksOn

NextConc == Calls \/ CreateSteps \/ UpdateSteps \/ DeleteSteps

SpecConc == InitConc /\ [][NextConc]_vars

\* find calls interleaving with update and delete calls, on a connected
\* collection without hooks
NextFind ==
    \/ FindCalls
    \/ \E o \in Ops, query \in Queries, isRest \in BOOLEAN :
         (isRest => query.k = "_id") /\ UpdateCall(o, query, "b", isRest)
    \/ \E o \in Ops, query \in Queries, isRest \in BOOLEAN :
         (isRest => query.k = "_id") /\ DeleteCall(o, query, isRest)
    \/ FindSteps \/ UpdateSteps \/ DeleteSteps

SpecFind == InitConc /\ [][NextFind]_vars

\* revisions calls interleaving with update calls, on a connected collection
\* without hooks
NextRevisions ==
    \/ \E o \in Ops, query \in Queries, isRest \in BOOLEAN :
         (isRest => query.k = "_id") /\ UpdateCall(o, query, "b", isRest)
    \/ \E o \in Ops, query \in Queries, historyFilters \in HistoryFilters :
         RevisionsCall(o, query, historyFilters)
    \/ UpdateSteps
    \/ \E o \in Ops : RevisionsFind(o)
    \/ \E o \in Ops : RevisionsHistory(o)

SpecRevisions == InitConc /\ [][NextRevisions]_vars

\* the engine at rest, while a field hook or a conversion is evaluated
EngineIdle ==
    /\ connected = TRUE
    /\ compose = SettingsCompose
    /\ hooksOn = FALSE
    /\ storeRevisions = FALSE
    /\ store = [i \in Ids |-> NoDoc]
    /\ nextId = 1
    /\ revisions = <<>>
    /\ ops = [o \in Ops |-> IdleOp]

Pending == [status |-> "pending"]

\* the query rewriters applied to every call of the model
InitRewrite == EngineIdle /\ args \in RewriteCalls /\ returned = Pending

NextRewrite == BeforeQuery \/ FindReference

SpecRewrite == InitRewrite /\ [][NextRewrite]_vars

\* beforeOutput applied to every call of the model
InitCompose == EngineIdle /\ args \in ComposeCalls /\ returned = Pending

NextCompose ==
    \/ BeforeOutputFinds
    \/ \E collection \in {Declared, Other, RootModel} : FindResolves(collection)
    \/ BeforeOutput

SpecCompose == InitCompose /\ [][NextCompose]_vars

\* the two conversions of a result set applied one after the other
InitFormat == EngineIdle /\ args \in FormatCalls /\ returned = Pending

NextFormat == FormatResultSetForInput \/ FormatResultSetForOutput

SpecFormat == InitFormat /\ [][NextFormat]_vars

\* beforeSave applied to every field value of the model
InitSave == EngineIdle /\ args \in SaveCalls /\ returned = Pending

NextSave ==
    \/ BeforeSaveMap
    \/ \E i \in 1..MaxValues, ok \in BOOLEAN : InsertionResolves(i, ok)
    \/ BeforeSave

SpecSave == InitSave /\ [][NextSave]_vars


\* ------------------------------------------------------------------ claims

\* the callback of the operation has reported success
Succeeded(op) == \E i \in DOMAIN op.callbacks : op.callbacks[i].err = NoErr

\* a document of a create carries the initial internal fields
Initialised(doc) ==
    doc._version = 1 /\ (storeRevisions => doc._history = <<>>)

\* C1: once create has issued the datastore insert, every document of the batch
\* has _version = 1 and, with revisioning enabled, _history = []; the results
\* create hands to its callback are one document per document of the batch,
\* each with those values.
C1_CreateInitialisesVersionAndHistory ==
    \A o \in Ops :
        ops[o].kind = "create" =>
            /\ "insert" \in Range(ops[o].issued) =>
                   \A i \in DOMAIN ops[o].documents : Initialised(ops[o].documents[i])
            /\ \A c \in DOMAIN ops[o].callbacks :
                   ops[o].callbacks[c].hasResult =>
                       /\ Len(ops[o].callbacks[c].results) = Len(ops[o].documents)
                       /\ \A i \in DOMAIN ops[o].callbacks[c].results :
                              /\ Initialised(ops[o].callbacks[c].results[i])
                              /\ ops[o].callbacks[c].results[i]._id # 0

\* a create of two documents has returned them, with revisioning enabled
C1_Witness ==
    \E o \in Ops :
        /\ ops[o].kind = "create" /\ storeRevisions
        /\ \E c \in DOMAIN ops[o].callbacks :
               ops[o].callbacks[c].hasResult /\ Len(ops[o].callbacks[c].results) = MaxBatch

C3_VersionRaisedByOneAndReturned ==
    [][/\ \A i \in Ids :
              (store[i] # NoDoc /\ store'[i] # NoDoc) => store'[i]._version >= store[i]._version
       /\ \A o \in Ops :
              (ops[o].pc = "u_store" /\ ops'[o].pc # "u_store") =>
                  \A i \in Ids : Matches(store[i], ops[o].query) =>
                      store'[i]._version = store[i]._version + 1
       /\ \A o \in Ops :
              (/\ ops[o].kind = "update" /\ ops[o].pc = "u_find3"
               /\ ops'[o].pc # "u_find3" /\ ops[o].modified # <<>>) =>
                  /\ Len(ops'[o].callbacks) = 1
                  /\ ops'[o].callbacks[1].err = NoErr
                  /\ \A m \in DOMAIN ops[o].modified :
                         \E r \in DOMAIN ops'[o].callbacks[1].results :
                             /\ ops'[o].callbacks[1].results[r]._id = ops[o].modified[m]._id
                             /\ ops'[o].callbacks[1].results[r]._version
                                  = ops[o].modified[m]._version + 1]_vars

\* the revisions an operation has written for a document
RevisionsBy(o, id) ==
    {r \in DOMAIN revisions : revisions[r].by = o /\ revisions[r].doc._id = id}

\* the update or delete has ended and its history write did not fail
EndedWithHistory(op) ==
    /\ op.kind \in {"update", "delete"}
    /\ op.pc \in {"done", "thrown"}
    /\ op.logged = 0

\* C4 (as claimed): with revisioning enabled, an update or delete that has ended
\* has written exactly one revision for every document its storage update or
\* delete modified, whatever other operations ran in between.
C4_OneRevisionPerModifiedDocument ==
    storeRevisions =>
        \A o \in Ops :
            EndedWithHistory(ops[o]) =>
                \A m \in DOMAIN ops[o].modified :
                    Cardinality(RevisionsBy(o, ops[o].modified[m]._id)) = 1

\* C5 (as claimed): the revision an update writes for a document it modified
\* holds the field values the document had immediately before the storage
\* update was applied.
C5_RevisionHoldsPreUpdateState ==
    \A r \in DOMAIN revisions :
        revisions[r].action = "update" =>
            \A m \in DOMAIN ops[revisions[r].by].modified :
                ops[revisions[r].by].modified[m]._id = revisions[r].doc._id =>
                    /\ revisions[r].doc.name = ops[revisions[r].by].modified[m].name
                    /\ revisions[r].doc._version = ops[revisions[r].by].modified[m]._version

\* C6 (as claimed): an update or delete whose history write failed has logged
\* the failure, never reports success, and once nothing of it is outstanding
\* has invoked its callback with the history failure.
C6_HistoryFailureReachesCallback ==
    \A o \in Ops :
        (ops[o].kind \in {"update", "delete"} /\ ops[o].logged > 0) =>
            /\ ~Succeeded(ops[o])
            /\ ops[o].pc \in {"done", "unanswered", "thrown"} =>
                   /\ Len(ops[o].callbacks) = 1
                   /\ ops[o].callbacks[1].err = HistoryError

\* the datastore call a before-hook chain protects
Protected(kind) ==
    CASE kind = "create" -> "insert"
      [] kind = "update" -> "update"
      [] kind = "delete" -> "delete"
      [] OTHER -> "find"

BeforeChains == {"beforeCreate", "beforeUpdate", "beforeDelete", "beforeGet"}

\* C7 (as claimed): an operation in whose before-hook chain a handler has failed
\* never issues the datastore call the chain protects.
C7_FailedBeforeHookBlocksDatastore ==
    \A o \in Ops :
        ops[o].rejected \cap BeforeChains # {} =>
            Protected(ops[o].kind) \notin Range(ops[o].issued)

\* C8 (as claimed): an operation in which a hook handler of a beforeCreate,
\* beforeUpdate, beforeDelete, beforeGet or afterGet chain has rejected invokes
\* its callback exactly once, with the handler's formatted error and no result
\* (operations in which nothing else went wrong: no handler returned null and no
\* inline reference failed).
C8_HookFailureCallsBackOnce ==
    \A o \in Ops :
        (/\ ops[o].rejected # {} /\ ops[o].nulled = {}
         /\ \A i \in DOMAIN ops[o].inline : ops[o].inline[i] # "err") =>
            /\ Len(ops[o].callbacks) <= 1
            /\ ops[o].pc \in {"done", "unanswered", "thrown"} =>
                   /\ Len(ops[o].callbacks) = 1
                   /\ ops[o].callbacks[1].err \in {HookError, WrappedHookError(HookError)}
                   /\ ~ops[o].callbacks[1].hasResult

\* C9 (as claimed): a handler of a beforeCreate, beforeUpdate, beforeDelete or
\* afterGet chain that returns null does not end its chain and causes no error:
\* no callback carries an error made from the null, nothing is thrown, and when
\* no handler rejected, every handler of the chain has been started once the
\* handler that returned null is no longer in flight.
C9_NullHandlerIsNoOp ==
    \A o \in Ops :
        ops[o].nulled \cap {"beforeCreate", "beforeUpdate", "beforeDelete", "afterGet"} # {} =>
            /\ \A c \in DOMAIN ops[o].callbacks :
                   ops[o].callbacks[c].err \notin {EmptyError, WrappedHookError(EmptyError)}
            /\ ops[o].pc # "thrown"
            /\ ops[o].rejected = {} =>
                   \A i \in DOMAIN ops[o].chains :
                       (ops[o].chains[i].memo = "null" /\ ops[o].chains[i].inflight = {})
                           => Len(ops[o].chains[i].started) = NumHooks

NoMatchDelete(op) ==
    /\ op.kind = "delete" /\ op.isRest
    /\ Len(op.issued) >= 2 /\ op.pc # "d_find" /\ op.failed = "none"
    /\ op.deletedDocs = <<>>

\* C11: a delete issued through an ID-addressed request whose query matches no
\* document has invoked its callback once, with the not-found error (status 404)
\* and no result, has written no revision, has started no beforeDelete handler
\* and has issued no datastore call besides its two finds.
C11_DeleteNotFound ==
    \A o \in Ops :
        NoMatchDelete(ops[o]) =>
            /\ ops[o].pc = "done"
            /\ Len(ops[o].callbacks) = 1
            /\ ops[o].callbacks[1].err.type = "notfound"
            /\ ops[o].callbacks[1].err.statusCode = 404
            /\ ~ops[o].callbacks[1].hasResult
            /\ {r \in DOMAIN revisions : revisions[r].by = o} = {}
            /\ ops[o].chains = <<>>
            /\ ops[o].issued = <<"find", "find">>

\* such a delete has ended on a collection with revisioning and beforeDelete hooks
C11_Witness ==
    \E o \in Ops :
        /\ NoMatchDelete(ops[o]) /\ ops[o].pc = "done"
        /\ storeRevisions /\ hooksOn

\* C12 (as claimed): an update or delete that reports not-found has issued no
\* mutating datastore call: no storage update or delete and no history insert.
C12_NotFoundBeforeMutation ==
    \A o \in Ops :
        (/\ ops[o].kind \in {"update", "delete"}
         /\ \E c \in DOMAIN ops[o].callbacks : ops[o].callbacks[c].err = NotFoundError)
        => Range(ops[o].issued) \cap {"update", "delete", "history"} = {}

\* C13 (as claimed): a create, find, count, update or delete whose query or
\* document fails validation has, when the call returns, invoked its callback
\* once with a validation error (status 400) and issued no datastore call,
\* whether or not the backend is connected.
C13_ValidationBeforeIO ==
    \A o \in Ops :
        (ops[o].kind \in {"create", "find", "count", "update", "delete"} /\ ~ops[o].valid) =>
            /\ Len(ops[o].callbacks) = 1
            /\ ops[o].callbacks[1].err.type = "validation"
            /\ ops[o].callbacks[1].err.statusCode = 400
            /\ ops[o].issued = <<>>

\* the operation has ended: nothing of it is outstanding
Ended(op) == op.pc \in {"done", "unanswered", "thrown"}

\* C14 (as claimed): a create, find, get, count, update, delete, revisions or
\* stats called with valid input while the backend is disconnected issues no
\* datastore call, does not wait for the connection, and ends with its callback
\* invoked once, with the connection error (status 503).
C14_DisconnectedIsUniform ==
    \A o \in Ops :
        (/\ ops[o].kind \in {"create", "find", "get", "count", "update", "delete",
                              "revisions", "stats"}
         /\ ~ops[o].dbAtCall /\ ops[o].valid) =>
            /\ ops[o].issued = <<>>
            /\ ops[o].pc \notin {"r_wait", "s_wait"}
            /\ Ended(ops[o]) => ops[o].callbacks = <<CbError(createConnectionError)>>

\* C15 (as claimed): when a datastore call of a create, find, update or delete
\* has failed with DB_DISCONNECTED, the operation's callback has been invoked
\* with the connection error (status 503), and never with the storage error.
C15_DisconnectedIsTranslated ==
    \A o \in Ops :
        (/\ ops[o].kind \in {"create", "find", "update", "delete"}
         /\ ops[o].failed = "DB_DISCONNECTED") =>
            /\ \E c \in DOMAIN ops[o].callbacks :
                   ops[o].callbacks[c] = CbError(createConnectionError)
            /\ \A c \in DOMAIN ops[o].callbacks :
                   ops[o].callbacks[c].err # RawError("DB_DISCONNECTED")

\* the kinds of error the engine builds itself
EngineErrors ==
    {"validation", "notfound", "connection", "notimplemented", "badrequest", "wrapped-hook"}

\* C16 (as claimed): every error the engine builds and passes to a callback
\* carries a status: 400 for validation and bad requests, 404 for not-found, 503
\* for the connection error, 501 for not-implemented, and one of these for the
\* error create builds for a hook chain in which a handler rejected.
C16_ErrorsCarryStatus ==
    \A o \in Ops :
        \A c \in DOMAIN ops[o].callbacks :
            LET err == ops[o].callbacks[c].err
            IN  (err.type \in EngineErrors /\ ops[o].nulled = {}) =>
                    /\ err.statusCode \in {400, 404, 501, 503}
                    /\ err.type \in {"validation", "badrequest"} => err.statusCode = 400
                    /\ err.type = "notfound" => err.statusCode = 404
                    /\ err.type = "connection" => err.statusCode = 503
                    /\ err.type = "notimplemented" => err.statusCode = 501

\* the operation has written a delete-type revision of every document it matched
DeleteRevisionsWritten(o) ==
    \A d \in DOMAIN ops[o].deletedDocs :
        \E r \in DOMAIN revisions :
            /\ revisions[r].by = o /\ revisions[r].action = "delete"
            /\ revisions[r].doc = ops[o].deletedDocs[d]

\* C17: in a delete, with revisioning the delete-type revisions of all matched
\* documents are written before the first beforeDelete handler is started and
\* before the storage delete is issued; the storage delete is issued only once
\* every beforeDelete handler has called back without error; the removal from
\* the search index and the afterDelete hooks happen only once the storage
\* delete has resolved with deletedCount > 0.
C17_DeleteOrdering ==
    \A o \in Ops :
        ops[o].kind = "delete" =>
            /\ (ops[o].chains # <<>> /\ storeRevisions) => DeleteRevisionsWritten(o)
            /\ "delete" \in Range(ops[o].issued) =>
                   /\ storeRevisions => DeleteRevisionsWritten(o)
                   /\ hooksOn =>
                          /\ ops[o].chains # <<>>
                          /\ ops[o].chains[1].finished
                          /\ ops[o].chains[1].inflight = {}
                          /\ ops[o].chains[1].err = NoErr
                          /\ Len(ops[o].chains[1].started) = NumHooks
            /\ ops[o].after # <<>> =>
                   /\ ops[o].pc = "done"
                   /\ "delete" \in Range(ops[o].issued)
                   /\ Len(ops[o].callbacks) = 1
                   /\ ops[o].callbacks[1].err = NoErr
                   /\ ops[o].callbacks[1].deletedCount > 0

\* a delete of two documents has gone through the history write, the
\* beforeDelete chain, the storage delete and what follows it
C17_Witness ==
    \E o \in Ops :
        /\ ops[o].kind = "delete" /\ ops[o].pc = "done"
        /\ storeRevisions /\ hooksOn
        /\ Len(ops[o].deletedDocs) = 2
        /\ ops[o].after = <<"searchDelete", "afterDelete">>

\* C18 (as claimed): when the beforeDelete chain has ended with a query
\* rewritten by its handlers, the storage delete is given that query.
C18_DeleteUsesRewrittenQuery ==
    \A o \in Ops :
        (/\ ops[o].kind = "delete" /\ "delete" \in Range(ops[o].issued)
         /\ ops[o].chains # <<>> /\ ops[o].chains[1].memo = "rewritten")
        => ops[o].usedQuery = RewrittenQuery

\* C19 (as claimed): when the storage delete of a delete resolves, the totalCount
\* handed to the callback is the number of documents the collection holds once
\* the deletion has been applied, whatever other operations completed since the
\* delete's unfiltered find.
C19_TotalCountIsRemaining ==
    [][\A o \in Ops :
           (/\ ops[o].kind = "delete" /\ ops[o].pc = "d_store"
            /\ ops'[o].pc = "done" /\ ops'[o].failed = "none") =>
               /\ Len(ops'[o].callbacks) = 1
               /\ ops'[o].callbacks[1].deletedCount = Len(ops'[o].modified)
               /\ ops'[o].callbacks[1].totalCount = Len(Find(store', AllQuery))]_vars

\* C20 (as claimed): the results of a find are composed exactly when the compose
\* option of that call says so or, when the call passed none, when the
\* collection's configured setting says so, whatever compose options other
\* find, update or delete calls used before or while the find was in flight.
C20_ComposeOptionIsPerCall ==
    \A o \in Ops :
        (ops[o].kind = "find" /\ ops[o].composed # "unset") =>
            (ops[o].composed = "yes") <=>
                (IF ops[o].composeOpt = "none" THEN SettingsCompose
                 ELSE ops[o].composeOpt = "true")

\* a call of a rewriter has returned without an error
Rewritten == returned.status = "done" /\ returned.err = NoErr

\* C21: a find whose query holds a one-hop path through a reference field
\* first queries the referenced collection with the leaf condition, replaces
\* the path by a condition on the reference field that admits the _id of every
\* matching foreign document, and issues the find on the collection itself
\* only afterwards and never with the dot-notation path.
C21_PathRewrittenBeforeFind ==
    (Rewritten /\ args.fn \in {"find", "beforeQuery"} /\ args.hops = 1) =>
        /\ returned.finds # <<>>
        /\ returned.finds[1] = [collection |-> "authors", query |-> NameIs(args.value)]
        /\ \A a \in RefIds :
              args.db.authors[a].name = args.value =>
                  RefMatches([_id |-> 0, name |-> "", ref |-> {a}], returned.query)
        /\ \A i \in DOMAIN returned.finds :
              returned.finds[i].collection = RootModel =>
                  /\ i = Len(returned.finds)
                  /\ i > 1
                  /\ returned.finds[i].query.k # "path"

\* the books a condition on the reference field selects
Selected(db, query) == Range(RefFind(db, RootModel, query))

\* the two nested lookups done by hand: the countries of that name, the
\* authors of those countries, the books of those authors
ByHand(db, value) ==
    LET countries == {c \in RefIds : db.countries[c] = value}
        authors == {a \in RefIds : db.authors[a].ref \cap countries # {}}
    IN  {b \in RefIds : db.books[b] \cap authors # {}}

TwoHops == Rewritten /\ args.fn = "beforeQuery" /\ args.hops = 2

\* C22: for a two-hop path the rewritten query selects exactly the documents
\* that two nested lookups done by hand with containsAny select.
C22_TwoHopsEqualNestedLookups ==
    TwoHops => Selected(args.db, returned.query) = ByHand(args.db, args.value)

C22_Witness ==
    /\ TwoHops
    /\ Selected(args.db, returned.query) # {}
    /\ Selected(args.db, returned.query) # RefIds
    /\ Len(returned.finds) = 2

\* C23: when an intermediate lookup of a path yields no ids, the rewritten
\* condition matches nothing and no find is issued for the outer levels.
C23_EmptyLookupShortCircuits ==
    (TwoHops /\ \A c \in RefIds : args.db.countries[c] # args.value) =>
        /\ Selected(args.db, returned.query) = {}
        /\ Len(returned.finds) = 1

\* a call of beforeOutput has returned; it composed the field
Output == returned.status = "done" /\ args.fn = "beforeOutput"
Composed == Output /\ ~returned.isInput

\* the ids of the field as the caller passed them
GivenIds == [i \in DOMAIN returned.given.input.ref |-> returned.given.input.ref[i]._id]

\* a find of the composition returned the document with this id
Fetched(id) ==
    args.home[id] = ReferenceCollection(Settings(args), IdMapping(args.home, args.mapped), id)

\* C24: after composition every id for which a foreign document was fetched
\* is replaced by that document; an id for which none was fetched is replaced
\* by null under strict compose and dropped otherwise.
C24_UnfetchedIdsNullOrDropped ==
    Composed =>
        LET out == returned.value.ref
        IN  /\ \A i \in DOMAIN GivenIds :
                 Fetched(GivenIds[i]) =>
                     \E j \in DOMAIN out : out[j].t = "doc" /\ out[j]._id = GivenIds[i]
            /\ args.strict =>
                 /\ Len(out) = Len(GivenIds)
                 /\ \A i \in DOMAIN GivenIds :
                       IF Fetched(GivenIds[i])
                       THEN out[i].t = "doc" /\ out[i]._id = GivenIds[i]
                       ELSE out[i] = Null
            /\ ~args.strict =>
                 \A j \in DOMAIN out : out[j].t = "doc" /\ Fetched(out[j]._id)

\* C25: composition is bounded by the configured depth: where composition is
\* disabled beforeOutput returns its input and issues no find, nested
\* documents are composed one level down, no find is issued at a level above
\* the depth, and with depth 1 the reference field of a composed document
\* keeps its raw ids.
C25_CompositionBoundedByDepth ==
    Output =>
        LET out == returned.value.ref
        IN  /\ ~shouldCompose(1, args.depth) =>
                 /\ returned.isInput
                 /\ returned.value = returned.given.input
                 /\ returned.finds = <<>>
            /\ \A f \in DOMAIN returned.finds : returned.finds[f].level <= args.depth
            /\ \A i \in DOMAIN out : \A j \in DOMAIN out[i].ref :
                 out[i].ref[j].t = "doc" =>
                     \E f \in DOMAIN returned.finds :
                         /\ returned.finds[f].level = 2
                         /\ out[i].ref[j]._id \in Range(returned.finds[f].ids)
            /\ args.depth = 1 =>
                 \A i \in DOMAIN out : \A j \in DOMAIN out[i].ref : out[i].ref[j].t = "id"

C25_Witness ==
    /\ Composed
    /\ args.depth = 1
    /\ \E i \in DOMAIN returned.value.ref :
         /\ returned.value.ref[i].t = "doc"
         /\ returned.value.ref[i].ref # <<>>
         /\ \A j \in DOMAIN returned.value.ref[i].ref :
               /\ returned.value.ref[i].ref[j].t = "id"
               /\ args.home[returned.value.ref[i].ref[j]._id] = Declared

\* C26: composing changes neither the input nor the stored documents:
\* beforeOutput returns a new object that holds the composed field, the
\* object it was given is as it was passed, and the only calls it issues are
\* finds.
C26_ComposeLeavesInputUntouched ==
    Output =>
        /\ args = returned.given
        /\ ~returned.isInput => returned.value.t = "output"
        /\ \A f \in DOMAIN returned.finds : returned.finds[f].op = "find"

C26_Witness ==
    /\ Composed
    /\ \E i \in DOMAIN returned.value.ref : returned.value.ref[i].t = "doc"
    /\ returned.finds # <<>>
    /\ args.input = returned.given.input

\* C27: the _composed annotation is attached exactly when at least one id was
\* resolved through the document's id mapping rather than through the
\* declared collection.
C27_AnnotationOnlyForMappedIds ==
    Composed =>
        (returned.value.annotated <=>
            \E i \in DOMAIN GivenIds :
                /\ GivenIds[i] \in DOMAIN IdMapping(args.home, args.mapped)
                /\ Fetched(GivenIds[i]))

\* a result set without its null-valued fields
WithoutNulls(results) ==
    [multiple |-> results.multiple,
     documents |-> [i \in DOMAIN results.documents |->
                      [f \in FieldNames |-> IF results.documents[i][f] = "null"
                                            THEN "absent"
                                            ELSE results.documents[i][f]]]]

\* the internal fields of the result set carry the configured prefix
CarriesPrefix(results, prefix) ==
    \A i \in DOMAIN results.documents : \A f \in FieldNames :
        (results.documents[i][f] # "absent" /\ Head(f) = "_") => prefix = "_"

RoundTrip == args.fn = "formatResultSet" /\ returned.status = "done"

\* C28: formatResultSetForOutput(formatResultSetForInput(x)) is x without its
\* null-valued fields, for every document or array x whose internal fields
\* carry the configured prefix; an array gives an array of the same length
\* and a single document a single document.
C28_FormatRoundTrip ==
    (RoundTrip /\ CarriesPrefix(args.results, args.prefix)) =>
        /\ returned.value = WithoutNulls(args.results)
        /\ returned.value.multiple = args.results.multiple
        /\ Len(returned.value.documents) = Len(args.results.documents)

C28_Witness ==
    /\ RoundTrip
    /\ args.prefix = "$"
    /\ args.results.multiple
    /\ Len(args.results.documents) = 2
    /\ args.results.documents[1][<<"$", "i">>] = "x"
    /\ args.results.documents[1][<<"n">>] = "null"
    /\ args.results.documents[1][<<"_", "i">>] = "absent"
    /\ args.results.documents[2][<<"_", "i">>] = "absent"
    /\ returned.value.documents[1][<<"$", "i">>] = "x"
    /\ returned.value.documents[1][<<"n">>] = "absent"

\* the revisions of the history a revisions call read that satisfy its filters
RECURSIVE FilteredHistory(_, _, _)
FilteredHistory(revs, op, i) ==
    IF i > Len(revs) THEN <<>>
    ELSE (IF /\ i \in Range(op.documents[1]._history)
             /\ op.historyFilters.k = "name" => revs[i].doc.name = op.historyFilters.name
             /\ op.historyFilters.k = "_id" => i = op.historyFilters.id
          THEN <<revs[i].doc>> ELSE <<>>)
         \o FilteredHistory(revs, op, i + 1)

\* C29: revisions(id) returns exactly the revision records whose ids are in
\* the live document's _history and that satisfy the caller's filters, and the
\* empty list when the document does not exist or revisioning is disabled.
C29_RevisionsAreFilteredHistory ==
    \A o \in Ops :
        (ops[o].kind = "revisions" /\ ops[o].pc = "done" /\ ops[o].failed = "none") =>
            ops[o].callbacks =
                <<CbResults(IF ops[o].documents = <<>> \/ ~storeRevisions THEN <<>>
                            ELSE FilteredHistory(revisions, ops[o], 1))>>

\* C30: an update call that passes validation invokes its callback exactly
\* once; when the storage update matched documents, that invocation comes
\* after the history write and the re-fetch and delivers the updated documents
\* without an error.
C30_UpdateCallsBackOnceWithResults ==
    \A o \in Ops :
        (/\ ops[o].kind = "update" /\ ops[o].valid
         /\ ops[o].pc \in {"done", "unanswered", "thrown"}
         /\ ops[o].logged = 0) =>
            /\ Len(ops[o].callbacks) = 1
            /\ ops[o].matchedCount > 0 =>
                   /\ ops[o].callbacks[1].err = NoErr
                   /\ ops[o].callbacks[1].hasResult
                   /\ IdsOf(ops[o].callbacks[1].results) = IdsOf(ops[o].modified)
                   /\ storeRevisions => "history" \in Range(ops[o].issued)
                   /\ ops[o].issued[Len(ops[o].issued)] = "find"

\* C31: in a create of several documents the beforeCreate chains and the
\* storage insert start only once the inline reference sub-documents of every
\* document of the batch have been resolved, whatever the order in which the
\* resolutions complete.
C31_InsertAfterEveryInlineResolved ==
    \A o \in Ops :
        (/\ ops[o].kind = "create"
         /\ ops[o].chains # <<>> \/ "insert" \in Range(ops[o].issued))
            => \A idx \in DOMAIN ops[o].inline : ops[o].inline[idx] # "pending"

\* C37: every create call invokes its callback exactly once, for every batch
\* size and outcome; in particular not a second time when the inline
\* resolution of one document fails while that of another succeeds.
C37_CreateCallsBackOnce ==
    \A o \in Ops :
        (ops[o].kind = "create" /\ ops[o].nulled = {} /\ ops[o].rejected = {})
            => /\ Len(ops[o].callbacks) <= 1
               /\ (/\ ops[o].pc = "done"
                   /\ \A idx \in DOMAIN ops[o].inline : ops[o].inline[idx] # "pending")
                      => Len(ops[o].callbacks) = 1

\* C33: the value handed to the datastore by create and update is the final
\* value of the before-hook fold: when the beforeCreate chain of a document,
\* or the beforeUpdate chain, ended with a replacement returned by a handler,
\* the inserted document, respectively the $set payload applied to the
\* matched documents, is that replacement.
C33_DatastoreGetsFoldedValue ==
    \A o \in Ops :
        /\ (/\ ops[o].kind = "create" /\ ops[o].pc = "done" /\ ops[o].failed = "none"
            /\ "insert" \in Range(ops[o].issued))
               => \A idx \in DOMAIN ops[o].chains :
                      ops[o].chains[idx].memo = "rewritten" =>
                          \E cb \in Range(ops[o].callbacks) :
                              /\ cb.hasResult
                              /\ store[cb.results[idx]._id].name = RewrittenName
        /\ (/\ ops[o].kind = "update" /\ "update" \in Range(ops[o].issued)
            /\ ops[o].pc # "u_store"
            /\ ops[o].chains # <<>> /\ ops[o].chains[1].memo = "rewritten")
               => \A d \in DOMAIN ops[o].modified :
                      store[ops[o].modified[d]._id].name = RewrittenName

\* C32: a find with includeHistory hands its callback a result set in which
\* every document has its revision list attached at the moment the callback is
\* invoked, whatever the order in which the revision lookups of the documents
\* complete.
C32_HistoryAttachedAtCallback ==
    \A o \in Ops :
        (/\ ops[o].kind = "find" /\ ops[o].includeHistory
         /\ \E cb \in Range(ops[o].callbacks) : cb.hasResult /\ Len(cb.results) > 0
         /\ \A i \in DOMAIN ops[o].histories : ops[o].histories[i] # "failed")
            => /\ DOMAIN ops[o].delivered = DOMAIN ops[o].documents
               /\ \A i \in DOMAIN ops[o].delivered : ops[o].delivered[i] = "attached"

\* C38: when a beforeDelete handler fails a delete, the collection is left as
\* it was: no matched document is deleted, and no delete-type revision has
\* been written or linked into the _history of any document.
C38_VetoedDeleteLeavesNoTrace ==
    \A o \in Ops :
        (ops[o].kind = "delete" /\ "beforeDelete" \in ops[o].rejected)
            => /\ \A d \in DOMAIN ops[o].deletedDocs :
                      store[ops[o].deletedDocs[d]._id] = ops[o].deletedDocs[d]
               /\ \A r \in DOMAIN revisions :
                      ~(revisions[r].by = o /\ revisions[r].action = "delete")

\* C39: when the history write of a delete fails, the beforeDelete handlers are
\* not run, the storage delete is not issued, the matched documents remain in
\* the collection, and the callback receives the history error (once).
C39_HistoryFailureStopsDelete ==
    \A o \in Ops :
        (ops[o].kind = "delete" /\ ops[o].logged > 0)
            => /\ ops[o].chains = <<>>
               /\ "delete" \notin Range(ops[o].issued)
               /\ \A d \in DOMAIN ops[o].deletedDocs :
                      store[ops[o].deletedDocs[d]._id] # NoDoc
               /\ ops[o].callbacks = <<CbError(HistoryError)>>

\* a delete that matched two documents, with beforeDelete hooks configured,
\* whose history write failed
C39_Witness ==
    \E o \in Ops :
        /\ ops[o].kind = "delete" /\ ops[o].logged > 0 /\ ops[o].pc = "done"
        /\ hooksOn /\ storeRevisions
        /\ Len(ops[o].deletedDocs) = 2

\* the collection an id of the field is to be looked up in: the one the
\* document's id mapping gives it, else the collection configured for the
\* field, else the collection of the model
Target(id) ==
    IF id \in DOMAIN IdMapping(args.home, args.mapped)
    THEN IdMapping(args.home, args.mapped)[id]
    ELSE IF args.collection # Unset THEN args.collection ELSE RootModel

\* the finds issued at level 1
Level1Finds == {f \in DOMAIN returned.finds : returned.finds[f].level = 1}

C35_OutputKeepsPositions ==
    (Composed /\ \A i \in DOMAIN GivenIds : Fetched(GivenIds[i])) =>
        LET out == returned.value.ref
        IN  /\ returned.value.isArray = returned.given.input.isArray
            /\ Len(out) = Len(GivenIds)
            /\ \A i \in DOMAIN out : out[i].t = "doc" /\ out[i]._id = GivenIds[i]

\* a call of beforeSave has resolved
Saved == returned.status = "done" /\ args.fn = "beforeSave"

\* the calls beforeSave issued for the value at position i
CallsAt(i) == {c \in DOMAIN returned.calls : returned.calls[c].at = i}

\* C36: after beforeSave every element of the field is an id string or the
\* original falsy value: an inline sub-document with an _id has been updated
\* in its target collection and one without an _id has been created there,
\* the field keeps its scalar/array shape and the order of its elements, and
\* the id mapping holds an entry for exactly the values that were given in
\* the multi-collection format.
C36_SaveLeavesIds ==
    Saved =>
        LET given == returned.given.values
            out == returned.value
            target(i) == IF given[i].collection # Unset THEN given[i].collection
                         ELSE IF args.collection # Unset THEN args.collection
                         ELSE RootModel
        IN  /\ returned.isArray = returned.given.isArray
            /\ DOMAIN out = DOMAIN given
            /\ \A i \in DOMAIN given :
                 /\ given[i].t = "null" => out[i].t = "null" /\ CallsAt(i) = {}
                 /\ given[i].t = "id" => out[i] = [t |-> "id", _id |-> given[i]._id]
                                         /\ CallsAt(i) = {}
                 /\ given[i].t = "doc" =>
                      /\ out[i].t = "id"
                      /\ given[i]._id # 0 => out[i]._id = given[i]._id
                      /\ given[i]._id = 0 =>
                           \A j \in DOMAIN given : j # i => out[j]._id # out[i]._id
                      /\ \E c \in CallsAt(i) :
                           /\ CallsAt(i) = {c}
                           /\ returned.calls[c] =
                                [op |-> IF given[i]._id # 0 THEN "update" ELSE "create",
                                 collection |-> target(i), _id |-> out[i]._id, at |-> i]
            /\ DOMAIN returned.idMapping
                 = {out[i]._id : i \in {j \in DOMAIN given : given[j].collection # Unset}}
            /\ \A i \in DOMAIN given :
                 given[i].collection # Unset =>
                     returned.idMapping[out[i]._id] = given[i].collection

\* an array of a sub-document without _id, given plainly, after a sub-document
\* with an _id given in the multi-collection format, whose insertion resolved
\* last
C36_Witness ==
    /\ Saved
    /\ args.isArray /\ args.collection = Unset
    /\ args.values = <<SubDocument(1, Other), SubDocument(0, Unset)>>
    /\ Len(returned.calls) = 2
    /\ returned.calls[1].op = "create" /\ returned.calls[1].collection = RootModel
    /\ returned.calls[2].op = "update"
    /\ DOMAIN returned.idMapping = {1}

====
